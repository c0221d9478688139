--------------------------- MODULE VersionContract ---------------------------
(***************************************************************************)
(* What version resolution promises about the image of a server, whatever  *)
(* the strategy, the failed lookups, the lost writes and the order of      *)
(* reconciles: an image is chosen only if the registry has it, every       *)
(* matched plugin can run with it and it is not older than the version on  *)
(* record; the image in use is the last one chosen or the one promised     *)
(* before; and only an image that has been written becomes the record.     *)
(***************************************************************************)
EXTENDS Naturals

CONSTANTS
    Weight,    \* function: a version as a number, in the order of versions
    NoImage,   \* no StatefulSet yet
    Legacy     \* the image of an earlier installation, without a version

VARIABLES
    image,     \* <<version, build>> in the StatefulSet, or NoImage, or Legacy
    promised,  \* the image on record as the desired one
    floor,     \* the image on record as the current one
    images,    \* the images of the registry
    allowed    \* the versions the matched plugins can run with

Init == image \in {NoImage, Legacy} /\ promised = NoImage /\ floor = NoImage

Choosable(i) ==
    /\ i \in images
    /\ i[1] \in allowed
    /\ floor = NoImage \/ Weight[i[1]] >= Weight[floor[1]]

\* A new choice, or the promise, is written and recorded, in part or as a whole.
Move ==
    \E i \in images :
        /\ Choosable(i) \/ i = promised
        /\ image' \in {image, i}
        /\ promised' \in {promised, i}
        /\ floor' = floor \/ (floor' = i /\ image' = i /\ promised' = i)

\* The registry, the plugins and the user change anything but the image.
Keep == UNCHANGED <<image, promised, floor>>

Spec == Init /\ [][Move \/ Keep]_<<image, promised, floor, images, allowed>>
=============================================================================
