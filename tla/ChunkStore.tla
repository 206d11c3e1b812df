----------------------------- MODULE ChunkStore -----------------------------
(***************************************************************************)
(* What a blob store promises its callers: one set of stored chunks.  A    *)
(* PUT adds a chunk, deleting a stream takes its chunks away for good, and *)
(* nothing else ever changes the set: no eviction, failure or restart.     *)
(***************************************************************************)
CONSTANTS Chunk, StreamOf(_)

VARIABLES
  store,      \* the chunks a read would find
  dead        \* chunks of the streams deleted so far

Init == store = {} /\ dead = {}

Put(c) ==
  /\ c \notin dead
  /\ store' = store \cup {c}
  /\ UNCHANGED dead

DeleteStream(s) ==
  LET keys == {c \in Chunk : StreamOf(c) = s}
  IN  /\ store' = store \ keys
      /\ dead' = dead \cup keys

Next == \E c \in Chunk : Put(c) \/ DeleteStream(StreamOf(c))

Spec == Init /\ [][Next]_<<store, dead>>
=============================================================================
