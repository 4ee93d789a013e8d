------------------------------ MODULE IpcQueue ------------------------------
(***************************************************************************)
(* What the IPC ring promises its users: a bounded first-in first-out      *)
(* queue of payloads.  A push takes its place in the order when it is      *)
(* accepted and becomes visible when it is published, in that same order;  *)
(* the consumer gets every published payload once, unaltered, or, with a   *)
(* length limit, drops an oversize one and learns only its length.         *)
(***************************************************************************)
EXTENDS Integers, Sequences

CONSTANTS
    Payloads,     \* records [src, len, words]
    Room,         \* capacity, in the unit of SizeOf
    SizeOf(_),    \* space a payload of a length takes
    Limits        \* length limits the consumer may use

VARIABLES
    accepted,     \* pushed, not yet visible
    queue,        \* visible, not yet consumed
    taken         \* what the consumer got

qvars == <<accepted, queue, taken>>

\* Space taken by a sequence of payloads.
Space(s) ==
    LET upTo[n \in 0 .. Len(s)] ==
            IF n = 0 THEN 0 ELSE upTo[n - 1] + SizeOf(s[n].len)
    IN  upTo[Len(s)]

QInit == accepted = <<>> /\ queue = <<>> /\ taken = <<>>

\* A producer has one push under way at a time.
Accept(m) ==
    /\ \A i \in 1 .. Len(accepted) : accepted[i].src # m.src
    /\ Space(queue) + Space(accepted) + SizeOf(m.len) <= Room
    /\ accepted' = Append(accepted, m)
    /\ UNCHANGED <<queue, taken>>

Publish ==
    /\ accepted # <<>>
    /\ queue' = Append(queue, Head(accepted))
    /\ accepted' = Tail(accepted)
    /\ UNCHANGED taken

Take ==
    /\ queue # <<>>
    /\ queue' = Tail(queue)
    /\ \/ taken' = Append(taken, [res |-> "ok", len |-> Head(queue).len,
                                  words |-> Head(queue).words])
       \/ /\ \E max \in Limits : Head(queue).len > max
          /\ taken' = Append(taken, [res |-> "too_large", len |-> Head(queue).len,
                                     words |-> <<>>])
    /\ UNCHANGED accepted

QNext == (\E m \in Payloads : Accept(m)) \/ Publish \/ Take

QSpec == QInit /\ [][QNext]_qvars

=============================================================================
