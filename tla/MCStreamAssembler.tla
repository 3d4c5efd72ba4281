-------------------------- MODULE MCStreamAssembler --------------------------
(***************************************************************************)
(* What a producer writes when model checking StreamAssembler.             *)
(***************************************************************************)
EXTENDS StreamAssembler

TheMagic == <<1, 2>>

Good == <<1, 2, 3, 5, 6, 4>>
InfiniteRoi == <<1, 2, 3, 5, 6, 0>>
BadHeader == <<1, 2, 3, 6, 6, 4>>
NextVersion == <<1, 2, 4, 5, 7, 1, 2>>      \* longer, a magic number inside
WideMessage == <<1, 2, 3, 5, 9, 4, 0, 0, 1>>
TooSmall == <<1, 2, 3, 5, 5>>
Swallows == <<1, 2, 0, 0, 8>>               \* claims bytes of the next item

SomeItems == {Good, InfiniteRoi, BadHeader, NextVersion, WideMessage, TooSmall,
              Swallows, <<0>>, <<1>>}
=============================================================================
