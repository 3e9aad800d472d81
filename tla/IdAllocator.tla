---------------------------- MODULE IdAllocator ----------------------------
(***************************************************************************)
(* What the comments above ida_simple_get() and ida_simple_remove()        *)
(* promise (compat/compat-3.1.c): concurrent callers see one atomic        *)
(* allocator.  A call returns an id of the requested range that nobody     *)
(* else holds, or reports that the range is full, or that memory is short. *)
(***************************************************************************)
EXTENDS Integers

CONSTANTS
    Callers,
    Ranges,     \* the <<start, end>> pairs that callers ask for; end = 0: no limit
    Top         \* the largest id there is

Ids == 0..Top
ENOMEM == -12
ENOSPC == -28

VARIABLES
    held,       \* ids handed out and not given back
    call        \* per caller: its request, and the answer once there is one

avars == <<held, call>>

Idle == [status |-> "idle"]
Open(r) == [status |-> "open", range |-> r]
Done(answer) == [status |-> "done", answer |-> answer]

Init == held = {} /\ call = [c \in Callers |-> Idle]

InRange(r) == {i \in Ids : r[1] <= i /\ (r[2] = 0 \/ i < r[2])}

Request(c) ==
    /\ call[c] = Idle
    /\ \E r \in Ranges : call' = [call EXCEPT ![c] = Open(r)]
    /\ held' = held

\* "Allocates an id in the range start <= id < end"
GetId(c, r) ==
    /\ call[c] = Open(r)
    /\ \E id \in InRange(r) \ held :
        /\ held' = held \union {id}
        /\ call' = [call EXCEPT ![c] = Done(id)]

\* ", or returns -ENOSPC."
GetNoSpace(c, r) ==
    /\ call[c] = Open(r)
    /\ InRange(r) \subseteq held
    /\ call' = [call EXCEPT ![c] = Done(ENOSPC)]
    /\ held' = held

\* "On memory allocation failure, returns -ENOMEM."
GetNoMem(c, r) ==
    /\ call[c] = Open(r)
    /\ call' = [call EXCEPT ![c] = Done(ENOMEM)]
    /\ held' = held

Return(c) ==
    /\ \E a \in Ids \union {ENOSPC, ENOMEM} : call[c] = Done(a)
    /\ call' = [call EXCEPT ![c] = Idle]
    /\ held' = held

\* "Use ida_simple_remove() to get rid of an id."
Remove ==
    /\ \E id \in held : held' = held \ {id}
    /\ call' = call

Next ==
    \/ \E c \in Callers : \/ Request(c) \/ Return(c)
                          \/ \E r \in Ranges : GetId(c, r) \/ GetNoSpace(c, r) \/ GetNoMem(c, r)
    \/ Remove

Spec == Init /\ [][Next]_avars
=============================================================================
