------------------------------ MODULE HeapSpec ------------------------------
(* What kmalloc and kfree promise: a block that is handed out holds what was *)
(* asked for and shares no byte with any block that is still held, nor with  *)
(* its header.                                                               *)
EXTENDS Naturals

CONSTANTS Arena,
          End,        \* addresses of an arena are below it
          Header,     \* bytes kept in front of a block
          Request

VARIABLE held     \* blocks in the hands of callers, [arena, base, size]

Before(b, c) == b.base + b.size + Header <= c.base
Disjoint(b, c) == b.arena = c.arena => Before(b, c) \/ Before(c, b)

Init == held = {}

Kmalloc ==
  \E b \in [arena : Arena, base : Header .. End, size : Request] :
    /\ b.base + b.size <= End
    /\ \A c \in held : Disjoint(b, c)
    /\ held' = held \cup {b}

Kfree == \E b \in held : held' = held \ {b}

Next == Kmalloc \/ Kfree

Spec == Init /\ [][Next]_held
=============================================================================
