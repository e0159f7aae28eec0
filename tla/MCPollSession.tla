--------------------------- MODULE MCPollSession ---------------------------
(* A cached block, two optional ones and a required one. The first optional  *)
(* block and the required one have the same shape: a late answer to one can  *)
(* be taken for the other; the second optional one differs in length only.   *)
EXTENDS PollSession

Read(function, count, cached, optional) ==
  [function |-> function, count |-> count, cached |-> cached, optional |-> optional]
FourBlocks == <<Read(3, 2, TRUE, FALSE), Read(4, 2, FALSE, TRUE),
                Read(3, 4, FALSE, TRUE), Read(4, 2, FALSE, FALSE)>>
=============================================================================
