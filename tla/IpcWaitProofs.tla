--------------------------- MODULE IpcWaitProofs ---------------------------
(***************************************************************************)
(* No committed record is left behind a sleeping consumer of an IPC ring:  *)
(* the proof that the emptiness check of wait_for_data, its Atomics.wait   *)
(* and the notify of a commit leave no gap between them.                   *)
(***************************************************************************)
EXTENDS IpcWait, SequenceTheorems, TLAPS

Addresses == {"head", "tail_commit"}

ProducerLabels == {"idle", "try", "full", "wait_head", "asleep_full", "await",
                   "wait_commit", "asleep_commit", "commit", "notify"}
ConsumerLabels == {"pop", "notify", "empty", "wait_data", "asleep_empty"}

WaitTypes ==
    /\ waiters \in [Addresses -> Seq(Threads)]
    /\ DOMAIN seen = Threads
    /\ pc \in [Threads -> ProducerLabels \cup ConsumerLabels]
    /\ \A p \in Producers : pc[p] \in ProducerLabels
    /\ pc[Consumer] \in ConsumerLabels

\* The threads listed at an atomic are the ones that sleep there, each listed
\* once, so that a notify wakes a thread whose call of Atomics.wait returns.
Queued(addr, asleep) ==
    /\ \A i \in 1 .. Len(waiters[addr]) : pc[waiters[addr][i]] \in asleep
    /\ \A i, j \in 1 .. Len(waiters[addr]) :
          waiters[addr][i] = waiters[addr][j] => i = j

\* A consumer asleep on tail_commit can be found by a notify, and one that is
\* about to sleep holds the value of tail_commit at which the ring was empty.
ConsumerSleeps ==
    /\ pc[Consumer] = "wait_data" => seen[Consumer] = head
    /\ pc[Consumer] = "asleep_empty" =>
          \E i \in 1 .. Len(waiters["tail_commit"]) : waiters["tail_commit"][i] = Consumer

WaitInv ==
    /\ WaitTypes
    /\ Queued("head", {"asleep_full"})
    /\ Queued("tail_commit", {"asleep_commit", "asleep_empty"})
    /\ ConsumerSleeps
    /\ NoLostDataWakeup

-----------------------------------------------------------------------------
(* The lists of sleeping threads *)

\* A list stays right when no thread joins or leaves it and its threads do
\* not move.
LEMMA KeepQueued ==
    ASSUME WaitTypes, NEW addr \in Addresses, NEW asleep, Queued(addr, asleep),
           waiters'[addr] = waiters[addr],
           \A t \in Threads : pc[t] \in asleep => pc'[t] = pc[t]
    PROVE  Queued(addr, asleep)'
<1>1. waiters[addr] \in Seq(Threads)
  BY DEF WaitTypes
<1>2. \A i \in 1 .. Len(waiters[addr]) : waiters[addr][i] \in Threads
  BY <1>1
<1> QED
  BY <1>2 DEF Queued

\* Atomics.wait appends the calling thread to the list.
LEMMA SleepQueued ==
    ASSUME WaitTypes, NEW addr \in Addresses, NEW asleep, Queued(addr, asleep),
           NEW t \in Threads, pc[t] \notin asleep, NEW label \in asleep,
           waiters'[addr] = Append(waiters[addr], t),
           pc'[t] = label, \A q \in Threads : q # t => pc'[q] = pc[q]
    PROVE  /\ Queued(addr, asleep)'
           /\ Len(waiters'[addr]) = Len(waiters[addr]) + 1
           /\ waiters'[addr][Len(waiters'[addr])] = t
           /\ \A i \in 1 .. Len(waiters[addr]) : waiters'[addr][i] = waiters[addr][i]
<1> DEFINE s == waiters[addr]
           u == waiters'[addr]
<1>1. s \in Seq(Threads) /\ u = Append(s, t)
  BY DEF WaitTypes
<1>2. PICK n \in Nat : n = Len(s)
  BY <1>1
<1>3. /\ Len(u) = n + 1 /\ u[n + 1] = t
      /\ \A i \in 1 .. n : u[i] = s[i] /\ s[i] \in Threads
  BY <1>1, <1>2
<1>4. \A i \in 1 .. n : pc[s[i]] \in asleep
  BY <1>2 DEF Queued
<1>5. \A i, j \in 1 .. n : s[i] = s[j] => i = j
  BY <1>2 DEF Queued
<1> HIDE DEF s, u
<1>6. \A i \in 1 .. n : s[i] # t
  BY <1>4
<1>7. ASSUME NEW i \in 1 .. n + 1
      PROVE  pc'[u[i]] \in asleep
  <2>1. CASE i = n + 1
    BY <1>1, <1>3, <2>1
  <2>2. CASE i \in 1 .. n
    BY <1>1, <1>3, <1>4, <1>6, <2>2
  <2> QED
    BY <2>1, <2>2
<1>8. ASSUME NEW i \in 1 .. n + 1, NEW j \in 1 .. n + 1, u[i] = u[j]
      PROVE  i = j
  <2>1. CASE i \in 1 .. n /\ j \in 1 .. n
    BY <1>3, <1>5, <1>8, <2>1
  <2>2. CASE i = n + 1 /\ j \in 1 .. n
    BY <1>3, <1>6, <1>8, <2>2
  <2>3. CASE j = n + 1 /\ i \in 1 .. n
    BY <1>3, <1>6, <1>8, <2>3
  <2> QED
    BY <2>1, <2>2, <2>3
<1> QED
  BY <1>2, <1>3, <1>7, <1>8 DEF Queued, s, u

\* Atomics.notify takes the first thread off the list; the others stay.
LEMMA WakeQueued ==
    ASSUME WaitTypes, NEW addr \in Addresses, NEW asleep, Queued(addr, asleep),
           NEW t \in Threads, pc[t] \notin asleep,
           waiters[addr] # <<>>, waiters'[addr] = Tail(waiters[addr]),
           NEW w, w = Head(waiters[addr]),
           \A q \in Threads : q # t /\ q # w => pc'[q] = pc[q]
    PROVE  /\ Queued(addr, asleep)'
           /\ w \in Threads /\ w # t /\ pc[w] \in asleep
           /\ \A i \in 2 .. Len(waiters[addr]) :
                 i - 1 \in 1 .. Len(waiters'[addr]) /\ waiters'[addr][i - 1] = waiters[addr][i]
           /\ waiters[addr][1] = w
<1> DEFINE s == waiters[addr]
           u == waiters'[addr]
<1>1. s \in Seq(Threads) /\ s # <<>> /\ u = Tail(s) /\ s[1] = w
  BY DEF WaitTypes
<1>2. PICK n \in Nat : n = Len(s)
  BY <1>1
<1>3. /\ n >= 1 /\ Len(u) = n - 1
      /\ \A i \in 1 .. n - 1 : u[i] = s[i + 1]
      /\ \A i \in 1 .. n : s[i] \in Threads
  <2>1. n # 0
    BY <1>1, <1>2
  <2>2. n >= 1
    BY <2>1
  <2>3. Len(Tail(s)) = Len(s) - 1 /\ \A i \in 1 .. Len(s) - 1 : Tail(s)[i] = s[i + 1]
    BY <1>1, HeadTailProperties
  <2>4. \A i \in 1 .. Len(s) : s[i] \in Threads
    BY <1>1
  <2> QED
    BY <1>1, <1>2, <2>2, <2>3, <2>4
<1>4. \A i \in 1 .. n : pc[s[i]] \in asleep
  BY <1>2 DEF Queued
<1>5. \A i, j \in 1 .. n : s[i] = s[j] => i = j
  BY <1>2 DEF Queued
<1>6. w \in Threads /\ w # t /\ pc[w] \in asleep
  BY <1>1, <1>3, <1>4
<1> HIDE DEF s, u
<1>7. ASSUME NEW i \in 1 .. n - 1
      PROVE  pc'[u[i]] \in asleep
  <2>1. i + 1 \in 1 .. n /\ i + 1 # 1 /\ 1 \in 1 .. n
    BY <1>3
  <2>2. s[i + 1] # w /\ s[i + 1] \in Threads /\ pc[s[i + 1]] \in asleep
    BY <1>1, <1>3, <1>4, <1>5, <2>1
  <2>3. s[i + 1] # t
    BY <2>2
  <2> QED
    BY <1>3, <2>2, <2>3
<1>8. ASSUME NEW i \in 1 .. n - 1, NEW j \in 1 .. n - 1, u[i] = u[j]
       PROVE  i = j
  <2>1. i + 1 \in 1 .. n /\ j + 1 \in 1 .. n
    OBVIOUS
  <2>2. s[i + 1] = s[j + 1]
    BY <1>3, <1>8
  <2>3. i + 1 = j + 1
    BY <1>5, <2>1, <2>2
  <2> QED
    BY <2>3
<1>9. ASSUME NEW i \in 2 .. n
       PROVE  i - 1 \in 1 .. n - 1 /\ u[i - 1] = s[i]
  <2>1. i - 1 \in 1 .. n - 1 /\ (i - 1) + 1 = i
    BY <1>3
  <2> QED
    BY <1>3, <2>1
<1>10. Queued(addr, asleep)'
  BY <1>3, <1>7, <1>8 DEF Queued, u
<1> QED
  BY <1>1, <1>2, <1>3, <1>6, <1>9, <1>10 DEF s, u

-----------------------------------------------------------------------------
(* The steps *)

LEMMA WaitInit == Init => WaitInv
<1> SUFFICES ASSUME Init
             PROVE  WaitInv
  OBVIOUS
<1>1. Consumer \notin Producers /\ Consumer \in Threads /\ Producers \subseteq Threads
  BY WaitAssumption DEF Threads
<1>2. pc[Consumer] = "pop" /\ \A p \in Producers : pc[p] = "idle"
  BY <1>1 DEF Init
<1>3. \A a \in Addresses : waiters[a] = <<>>
  BY DEF Init, Addresses
<1>4. WaitTypes
  <2>1. waiters \in [Addresses -> Seq(Threads)]
    BY DEF Init, Addresses
  <2>2. DOMAIN seen = Threads
    BY DEF Init
  <2>3. pc \in [Threads -> ProducerLabels \cup ConsumerLabels]
    BY DEF Init, ProducerLabels, ConsumerLabels
  <2> QED
    BY <1>2, <2>1, <2>2, <2>3 DEF WaitTypes, ProducerLabels, ConsumerLabels
<1>5. \A a \in Addresses : Len(waiters[a]) = 0
  BY <1>3
<1>6. Queued("head", {"asleep_full"}) /\ Queued("tail_commit", {"asleep_commit", "asleep_empty"})
  BY <1>5 DEF Queued, Addresses
<1> QED
  BY <1>2, <1>4, <1>6 DEF WaitInv, ConsumerSleeps, NoLostDataWakeup

\* A step in which one producer moves, and neither lists, head nor commit
\* change: whatever it does not do to the lists it does not do to the rest.
LEMMA ProducerMoves ==
    ASSUME WaitInv, NEW p \in Producers, NEW label \in ProducerLabels,
           pc[p] \notin {"asleep_full", "asleep_commit"},
           pc' = [pc EXCEPT ![p] = label],
           UNCHANGED <<head, waiters>>,
           DOMAIN seen' = Threads, seen'[Consumer] = seen[Consumer],
           tail_commit' = tail_commit \/ label = "notify",
           p \in Pushing =>
              label \in {"await", "wait_commit", "asleep_commit", "commit", "notify"}
    PROVE  WaitInv'
<1>1. /\ Consumer \notin Producers /\ Consumer \in Threads /\ p \in Threads
      /\ WaitTypes /\ ConsumerSleeps
  BY WaitAssumption DEF Threads, WaitInv
<1>2. /\ pc'[p] = label /\ pc'[Consumer] = pc[Consumer] /\ p # Consumer
      /\ \A t \in Threads : t # p => pc'[t] = pc[t]
      /\ \A q \in Producers : q # p => pc'[q] = pc[q]
      /\ pc' \in [Threads -> ProducerLabels \cup ConsumerLabels]
  BY <1>1 DEF WaitTypes, Threads
<1>3. WaitTypes'
  BY <1>1, <1>2 DEF WaitTypes
<1>4. pc[p] # "asleep_empty"
  BY <1>1 DEF WaitTypes, ProducerLabels
<1>5. Queued("head", {"asleep_full"})'
  BY <1>1, <1>2, KeepQueued DEF WaitInv, Addresses
<1>6. Queued("tail_commit", {"asleep_commit", "asleep_empty"})'
  BY <1>1, <1>2, <1>4, KeepQueued DEF WaitInv, Addresses
<1>7. ConsumerSleeps'
  BY <1>1, <1>2 DEF ConsumerSleeps
<1>8. NoLostDataWakeup'
  <2>1. CASE tail_commit' = tail_commit
    <3>1. ASSUME NEW q \in Pushing
          PROVE  q \in Pushing'
      BY <1>2, <3>1 DEF Pushing
    <3> QED
      BY <1>2, <2>1, <3>1 DEF WaitInv, NoLostDataWakeup
  <2>2. CASE label = "notify"
    BY <1>2, <2>2 DEF NoLostDataWakeup, Pushing
  <2> QED
    BY <2>1, <2>2
<1> QED
  BY <1>3, <1>5, <1>6, <1>7, <1>8 DEF WaitInv

\* A producer goes to sleep on head or on tail_commit.
LEMMA ProducerSleeps ==
    ASSUME WaitInv, NEW p \in Producers, NEW addr, NEW label,
           \/ addr = "head" /\ label = "asleep_full" /\ pc[p] = "wait_head"
           \/ addr = "tail_commit" /\ label = "asleep_commit" /\ pc[p] = "wait_commit",
           pc' = [pc EXCEPT ![p] = label],
           waiters' = [waiters EXCEPT ![addr] = Append(@, p)],
           UNCHANGED <<head, tail_commit, seen>>
    PROVE  WaitInv'
<1>1. /\ Consumer \notin Producers /\ Consumer \in Threads /\ p \in Threads
      /\ WaitTypes /\ ConsumerSleeps
  BY WaitAssumption DEF Threads, WaitInv
<1>2. /\ pc'[p] = label /\ pc'[Consumer] = pc[Consumer] /\ p # Consumer
      /\ \A t \in Threads : t # p => pc'[t] = pc[t]
      /\ \A q \in Producers : q # p => pc'[q] = pc[q]
      /\ label \in ProducerLabels
      /\ pc' \in [Threads -> ProducerLabels \cup ConsumerLabels]
  BY <1>1 DEF WaitTypes, Threads, ProducerLabels
<1>3. addr \in Addresses /\ waiters \in [Addresses -> Seq(Threads)]
  BY <1>1 DEF Addresses, WaitTypes
<1>4. waiters' \in [Addresses -> Seq(Threads)]
  <2>1. Append(waiters[addr], p) \in Seq(Threads)
    BY <1>1, <1>3
  <2> QED
    BY <1>3, <2>1
<1>5. WaitTypes'
  BY <1>1, <1>2, <1>4 DEF WaitTypes
<1>6. NoLostDataWakeup'
  <2>1. ASSUME NEW q \in Pushing
        PROVE  q \in Pushing'
    BY <1>2, <2>1 DEF Pushing
  <2> QED
    BY <1>2, <2>1 DEF WaitInv, NoLostDataWakeup
<1>7. CASE addr = "head"
  <2>1. waiters'["tail_commit"] = waiters["tail_commit"] /\ label = "asleep_full"
        /\ pc[p] = "wait_head"
    BY <1>3, <1>7 DEF Addresses
  <2>2. Queued("head", {"asleep_full"})'
    <3>1. waiters'["head"] = Append(waiters["head"], p) /\ "head" \in Addresses
      BY <1>3, <1>7 DEF Addresses
    <3> QED
      BY <1>1, <1>2, <2>1, <3>1, SleepQueued DEF WaitInv
  <2>3. Queued("tail_commit", {"asleep_commit", "asleep_empty"})'
    BY <1>1, <1>2, <2>1, KeepQueued DEF WaitInv, Addresses
  <2>4. ConsumerSleeps'
    BY <1>1, <1>2, <2>1 DEF ConsumerSleeps
  <2> QED
    BY <1>5, <1>6, <2>2, <2>3, <2>4 DEF WaitInv
<1>8. CASE addr = "tail_commit"
  <2>1. waiters'["head"] = waiters["head"] /\ label = "asleep_commit"
        /\ pc[p] = "wait_commit"
    BY <1>3, <1>8 DEF Addresses
  <2>2. Queued("head", {"asleep_full"})'
    BY <1>1, <1>2, <2>1, KeepQueued DEF WaitInv, Addresses
  <2>3. /\ Queued("tail_commit", {"asleep_commit", "asleep_empty"})'
        /\ Len(waiters'["tail_commit"]) = Len(waiters["tail_commit"]) + 1
        /\ \A i \in 1 .. Len(waiters["tail_commit"]) :
               waiters'["tail_commit"][i] = waiters["tail_commit"][i]
    <3> DEFINE C == {"asleep_commit", "asleep_empty"}
    <3>1. pc[p] \notin C /\ label \in C /\ Queued("tail_commit", C)
      BY <2>1 DEF WaitInv
    <3>2. /\ "tail_commit" \in Addresses
          /\ waiters'["tail_commit"] = Append(waiters["tail_commit"], p)
      BY <1>3, <1>8 DEF Addresses
    <3> HIDE DEF C
    <3>3. /\ Queued("tail_commit", C)'
          /\ Len(waiters'["tail_commit"]) = Len(waiters["tail_commit"]) + 1
          /\ \A i \in 1 .. Len(waiters["tail_commit"]) :
                 waiters'["tail_commit"][i] = waiters["tail_commit"][i]
      BY <1>1, <1>2, <3>1, <3>2, SleepQueued
    <3> QED
      BY <3>3 DEF C
  <2>4. Len(waiters["tail_commit"]) \in Nat
    BY <1>3 DEF Addresses
  <2>5. \A i \in 1 .. Len(waiters["tail_commit"]) : i \in 1 .. Len(waiters'["tail_commit"])
    BY <2>3, <2>4
  <2>6. ConsumerSleeps'
    BY <1>1, <1>2, <2>3, <2>5 DEF ConsumerSleeps
  <2> QED
    BY <1>5, <1>6, <2>2, <2>3, <2>6 DEF WaitInv
<1> QED
  BY <1>7, <1>8

\* The notify of a commit: when it wakes another producer instead of the
\* consumer, that producer has its own notify before it.
LEMMA ProducerNotifies ==
    ASSUME WaitInv, NEW p \in Producers, NotifyCommit(p)
    PROVE  WaitInv'
<1>1. /\ Consumer \notin Producers /\ Consumer \in Threads /\ p \in Threads /\ p # Consumer
      /\ WaitTypes /\ ConsumerSleeps /\ pc[p] = "notify"
      /\ UNCHANGED <<head, tail_commit, seen>>
  BY WaitAssumption DEF Threads, WaitInv, NotifyCommit, Notify, ring, locals
<1> DEFINE s == waiters["tail_commit"]
<1>2. waiters \in [Addresses -> Seq(Threads)] /\ s \in Seq(Threads)
  BY <1>1 DEF WaitTypes, Addresses
<1>3. CASE s = <<>>
  <2>1. waiters' = waiters /\ pc' = [pc EXCEPT ![p] = "idle"]
    BY <1>3 DEF NotifyCommit, Notify, Goto
  <2>2. pc[Consumer] # "asleep_empty"
    BY <1>1, <1>3 DEF ConsumerSleeps
  <2>3. /\ pc'[p] = "idle" /\ pc'[Consumer] = pc[Consumer]
        /\ \A t \in Threads : t # p => pc'[t] = pc[t]
        /\ \A q \in Producers : q # p => pc'[q] = pc[q]
        /\ pc' \in [Threads -> ProducerLabels \cup ConsumerLabels]
    BY <1>1, <2>1 DEF WaitTypes, Threads, ProducerLabels
  <2>4. WaitTypes'
    BY <1>1, <2>1, <2>3 DEF WaitTypes, ProducerLabels
  <2>5. Queued("head", {"asleep_full"})'
    BY <1>1, <2>1, <2>3, KeepQueued DEF WaitInv, Addresses
  <2>6. Queued("tail_commit", {"asleep_commit", "asleep_empty"})'
    BY <1>1, <2>1, <2>3, KeepQueued DEF WaitInv, Addresses
  <2>7. ConsumerSleeps' /\ NoLostDataWakeup'
    BY <1>1, <2>1, <2>2, <2>3 DEF ConsumerSleeps, NoLostDataWakeup
  <2> QED
    BY <2>4, <2>5, <2>6, <2>7 DEF WaitInv
<1>4. CASE s # <<>>
  <2>w. PICK w : w = Head(s)
    OBVIOUS
  <2>1. /\ waiters' = [waiters EXCEPT !["tail_commit"] = Tail(@)]
        /\ pc' = [pc EXCEPT ![p] = "idle",
                            ![Head(waiters["tail_commit"])] = Resume(pc[Head(waiters["tail_commit"])])]
    BY <1>4 DEF NotifyCommit, Notify
  <2>2. /\ Queued("tail_commit", {"asleep_commit", "asleep_empty"})'
        /\ w \in Threads /\ w # p /\ pc[w] \in {"asleep_commit", "asleep_empty"}
        /\ pc'[w] = Resume(pc[w]) /\ pc'[p] = "idle"
        /\ \A q \in Threads : q # p /\ q # w => pc'[q] = pc[q]
        /\ \A i \in 2 .. Len(waiters["tail_commit"]) :
              /\ i - 1 \in 1 .. Len(waiters'["tail_commit"])
              /\ waiters'["tail_commit"][i - 1] = waiters["tail_commit"][i]
        /\ waiters["tail_commit"][1] = w
    <3> DEFINE C == {"asleep_commit", "asleep_empty"}
    <3>1. /\ pc[p] \notin C /\ Queued("tail_commit", C) /\ "tail_commit" \in Addresses
          /\ waiters["tail_commit"] # <<>> /\ w = Head(waiters["tail_commit"])
          /\ waiters'["tail_commit"] = Tail(waiters["tail_commit"])
      BY <1>1, <1>2, <1>4, <2>w, <2>1 DEF WaitInv, Addresses
    <3>2. /\ \A q \in Threads : q # p /\ q # w => pc'[q] = pc[q]
          /\ w \in Threads /\ w # p => pc'[w] = Resume(pc[w]) /\ pc'[p] = "idle"
      BY <1>1, <2>w, <2>1 DEF WaitTypes
    <3> HIDE DEF C, s
    <3>3. /\ Queued("tail_commit", C)'
          /\ w \in Threads /\ w # p /\ pc[w] \in C
          /\ \A i \in 2 .. Len(waiters["tail_commit"]) :
                /\ i - 1 \in 1 .. Len(waiters'["tail_commit"])
                /\ waiters'["tail_commit"][i - 1] = waiters["tail_commit"][i]
          /\ waiters["tail_commit"][1] = w
      BY <1>1, <3>1, <3>2, WakeQueued
    <3> QED
      BY <3>2, <3>3 DEF C
  <2>3. waiters'["head"] = waiters["head"] /\ waiters' \in [Addresses -> Seq(Threads)]
    <3>1. Tail(s) \in Seq(Threads)
      BY <1>2, <1>4
    <3> QED
      BY <1>2, <2>1, <3>1 DEF Addresses
  <2>4. \/ w \in Producers /\ pc'[w] = "await" /\ pc[w] = "asleep_commit"
        \/ w = Consumer /\ pc'[w] = "empty" /\ pc[w] = "asleep_empty"
    <3>1. CASE w \in Producers
      <4>1. pc[w] = "asleep_commit"
        BY <1>1, <2>2, <3>1 DEF WaitTypes, ProducerLabels
      <4> QED
        BY <2>2, <3>1, <4>1 DEF Resume
    <3>2. CASE w = Consumer
      <4>1. pc[w] = "asleep_empty"
        BY <1>1, <2>2, <3>2 DEF WaitTypes, ConsumerLabels
      <4> QED
        BY <2>2, <3>2, <4>1 DEF Resume
    <3> QED
      BY <2>2, <3>1, <3>2 DEF Threads
  <2>5. \A q \in Producers : q = p \/ q = w \/ pc'[q] = pc[q]
    BY <2>2 DEF Threads
  <2>6. WaitTypes'
    <3>1. pc' \in [Threads -> ProducerLabels \cup ConsumerLabels]
      BY <1>1, <2>1, <2>w, <2>2, <2>4 DEF WaitTypes, ProducerLabels, ConsumerLabels
    <3>2. \A q \in Producers : pc'[q] \in ProducerLabels
      BY <1>1, <2>2, <2>4, <2>5 DEF WaitTypes, ProducerLabels
    <3>3. pc'[Consumer] \in ConsumerLabels
      BY <1>1, <2>2, <2>4 DEF WaitTypes, ConsumerLabels
    <3> QED
      BY <1>1, <2>3, <3>1, <3>2, <3>3 DEF WaitTypes
  <2>7. Queued("head", {"asleep_full"})'
    <3>1. \A t \in Threads : pc[t] \in {"asleep_full"} => pc'[t] = pc[t]
      BY <1>1, <2>2
    <3> QED
      BY <1>1, <2>3, <3>1, KeepQueued DEF WaitInv, Addresses
  <2>8. CASE w = Consumer
    BY <2>2, <2>4, <2>6, <2>7, <2>8, <1>1 DEF WaitInv, ConsumerSleeps, NoLostDataWakeup
  <2>9. CASE w \in Producers
    <3>1. pc'[Consumer] = pc[Consumer] /\ w # Consumer
      BY <1>1, <2>2, <2>9
    <3>2. NoLostDataWakeup'
      BY <1>1, <2>4, <2>9 DEF NoLostDataWakeup, Pushing
    <3>3. ASSUME pc[Consumer] = "asleep_empty"
          PROVE  \E i \in 1 .. Len(waiters'["tail_commit"]) :
                    waiters'["tail_commit"][i] = Consumer
      <4>1. PICK i \in 1 .. Len(s) : s[i] = Consumer
        BY <1>1, <3>3 DEF ConsumerSleeps
      <4>2. i # 1
        BY <2>2, <3>1, <4>1
      <4>3. Len(s) \in Nat
        BY <1>2
      <4>4. i \in 2 .. Len(s)
        BY <4>2, <4>3
      <4> QED
        BY <2>2, <4>1, <4>4
    <3>4. ConsumerSleeps'
      BY <1>1, <3>1, <3>3 DEF ConsumerSleeps
    <3> QED
      BY <2>2, <2>6, <2>7, <3>2, <3>4 DEF WaitInv
  <2> QED
    BY <2>2, <2>8, <2>9 DEF Threads
<1> QED
  BY <1>3, <1>4

\* A step of the consumer that is neither asleep before nor after it.
LEMMA ConsumerMoves ==
    ASSUME WaitInv, NEW label \in ConsumerLabels \ {"asleep_empty"},
           pc[Consumer] # "asleep_empty",
           pc' = [pc EXCEPT ![Consumer] = label],
           UNCHANGED waiters, DOMAIN seen' = Threads,
           label = "wait_data" => seen'[Consumer] = head'
    PROVE  WaitInv'
<1>1. /\ Consumer \notin Producers /\ Consumer \in Threads
      /\ WaitTypes /\ ConsumerSleeps
  BY WaitAssumption DEF Threads, WaitInv
<1>2. /\ pc'[Consumer] = label
      /\ \A t \in Threads : t # Consumer => pc'[t] = pc[t]
      /\ \A q \in Producers : pc'[q] = pc[q]
      /\ pc' \in [Threads -> ProducerLabels \cup ConsumerLabels]
  BY <1>1 DEF WaitTypes, Threads
<1>3. WaitTypes'
  BY <1>1, <1>2 DEF WaitTypes
<1>4. pc[Consumer] \notin {"asleep_full", "asleep_commit", "asleep_empty"}
  BY <1>1 DEF WaitTypes, ConsumerLabels
<1>5. Queued("head", {"asleep_full"})'
  BY <1>1, <1>2, <1>4, KeepQueued DEF WaitInv, Addresses
<1>6. Queued("tail_commit", {"asleep_commit", "asleep_empty"})'
  BY <1>1, <1>2, <1>4, KeepQueued DEF WaitInv, Addresses
<1>7. ConsumerSleeps' /\ NoLostDataWakeup'
  BY <1>2 DEF ConsumerSleeps, NoLostDataWakeup
<1> QED
  BY <1>3, <1>5, <1>6, <1>7 DEF WaitInv

\* The consumer goes to sleep: tail_commit is still the value at which the
\* ring was empty, so no record is left behind.
LEMMA ConsumerGoesToSleep ==
    ASSUME WaitInv, WaitData, tail_commit = seen[Consumer]
    PROVE  WaitInv'
<1>1. /\ Consumer \notin Producers /\ Consumer \in Threads
      /\ WaitTypes /\ ConsumerSleeps
  BY WaitAssumption DEF Threads, WaitInv
<1>2. /\ pc[Consumer] = "wait_data"
      /\ pc' = [pc EXCEPT ![Consumer] = "asleep_empty"]
      /\ waiters' = [waiters EXCEPT !["tail_commit"] = Append(@, Consumer)]
      /\ UNCHANGED <<head, tail_commit, seen>>
  BY DEF WaitData, Wait, Goto, ring, locals
<1>3. /\ pc'[Consumer] = "asleep_empty"
      /\ \A t \in Threads : t # Consumer => pc'[t] = pc[t]
      /\ \A q \in Producers : pc'[q] = pc[q]
      /\ pc' \in [Threads -> ProducerLabels \cup ConsumerLabels]
  BY <1>1, <1>2 DEF WaitTypes, Threads, ConsumerLabels
<1>4. waiters' \in [Addresses -> Seq(Threads)] /\ waiters'["head"] = waiters["head"]
  <2>1. Append(waiters["tail_commit"], Consumer) \in Seq(Threads)
    BY <1>1 DEF WaitTypes, Addresses
  <2> QED
    BY <1>1, <1>2, <2>1 DEF WaitTypes, Addresses
<1>5. WaitTypes'
  BY <1>1, <1>2, <1>3, <1>4 DEF WaitTypes, ConsumerLabels
<1>6. Queued("head", {"asleep_full"})'
  BY <1>1, <1>2, <1>3, <1>4, KeepQueued DEF WaitInv, Addresses
<1>7. /\ Queued("tail_commit", {"asleep_commit", "asleep_empty"})'
      /\ Len(waiters'["tail_commit"]) = Len(waiters["tail_commit"]) + 1
      /\ waiters'["tail_commit"][Len(waiters'["tail_commit"])] = Consumer
  <2> DEFINE C == {"asleep_commit", "asleep_empty"}
             label == "asleep_empty"
  <2>1. /\ pc[Consumer] \notin C /\ label \in C /\ Queued("tail_commit", C)
        /\ "tail_commit" \in Addresses
        /\ waiters'["tail_commit"] = Append(waiters["tail_commit"], Consumer)
        /\ pc'[Consumer] = label
    BY <1>1, <1>2, <1>3 DEF WaitInv, Addresses, WaitTypes
  <2> HIDE DEF C, label
  <2>2. /\ Queued("tail_commit", C)'
        /\ Len(waiters'["tail_commit"]) = Len(waiters["tail_commit"]) + 1
        /\ waiters'["tail_commit"][Len(waiters'["tail_commit"])] = Consumer
    BY <1>1, <1>3, <2>1, SleepQueued
  <2> QED
    BY <2>2 DEF C
<1>8. ConsumerSleeps'
  <2>1. Len(waiters["tail_commit"]) \in Nat
    BY <1>1 DEF WaitTypes, Addresses
  <2>2. Len(waiters'["tail_commit"]) \in 1 .. Len(waiters'["tail_commit"])
    BY <1>7, <2>1
  <2> QED
    BY <1>3, <1>7, <2>2 DEF ConsumerSleeps
<1>9. NoLostDataWakeup'
  BY <1>1, <1>2 DEF ConsumerSleeps, NoLostDataWakeup
<1> QED
  BY <1>5, <1>6, <1>7, <1>8, <1>9 DEF WaitInv

\* The notify of a pop: the consumer is awake, a producer may wake.
LEMMA ConsumerNotifies ==
    ASSUME WaitInv, NotifyHead
    PROVE  WaitInv'
<1>1. /\ Consumer \notin Producers /\ Consumer \in Threads
      /\ WaitTypes /\ ConsumerSleeps /\ pc[Consumer] = "notify"
      /\ UNCHANGED <<head, tail_commit, seen>>
  BY WaitAssumption DEF Threads, WaitInv, NotifyHead, Notify, ring, locals
<1>2. waiters \in [Addresses -> Seq(Threads)] /\ waiters["head"] \in Seq(Threads)
  BY <1>1 DEF WaitTypes, Addresses
<1>3. CASE waiters["head"] = <<>>
  <2>1. waiters' = waiters /\ pc' = [pc EXCEPT ![Consumer] = "pop"]
    BY <1>3 DEF NotifyHead, Notify, Goto
  <2>2. "pop" \in ConsumerLabels \ {"asleep_empty"} /\ DOMAIN seen' = Threads
    BY <1>1 DEF ConsumerLabels, WaitTypes
  <2> QED
    BY <1>1, <2>1, <2>2, ConsumerMoves
<1>4. CASE waiters["head"] # <<>>
  <2>w. PICK w : w = Head(waiters["head"])
    OBVIOUS
  <2>1. /\ waiters' = [waiters EXCEPT !["head"] = Tail(@)]
        /\ pc' = [pc EXCEPT ![Consumer] = "pop",
                            ![Head(waiters["head"])] = Resume(pc[Head(waiters["head"])])]
    BY <1>4 DEF NotifyHead, Notify
  <2>2. /\ Queued("head", {"asleep_full"})'
        /\ w \in Threads /\ w # Consumer /\ pc[w] = "asleep_full"
        /\ pc'[w] = Resume(pc[w]) /\ pc'[Consumer] = "pop"
        /\ \A q \in Threads : q # Consumer /\ q # w => pc'[q] = pc[q]
    <3> DEFINE C == {"asleep_full"}
    <3>1. /\ pc[Consumer] \notin C /\ Queued("head", C) /\ "head" \in Addresses
          /\ waiters'["head"] = Tail(waiters["head"])
      BY <1>1, <1>2, <2>w, <2>1 DEF WaitInv, Addresses
    <3>2. /\ \A q \in Threads : q # Consumer /\ q # w => pc'[q] = pc[q]
          /\ w \in Threads /\ w # Consumer => pc'[w] = Resume(pc[w]) /\ pc'[Consumer] = "pop"
      BY <1>1, <2>w, <2>1 DEF WaitTypes
    <3> HIDE DEF C
    <3>3. /\ Queued("head", C)'
          /\ w \in Threads /\ w # Consumer /\ pc[w] \in C
      BY <1>1, <1>4, <2>w, <3>1, <3>2, WakeQueued
    <3> QED
      BY <3>2, <3>3 DEF C
  <2>3. waiters'["tail_commit"] = waiters["tail_commit"] /\ waiters' \in [Addresses -> Seq(Threads)]
    <3>1. Tail(waiters["head"]) \in Seq(Threads)
      BY <1>2, <1>4
    <3> QED
      BY <1>2, <2>1, <3>1 DEF Addresses
  <2>4. w \in Producers /\ pc'[w] = "try"
    BY <2>2 DEF Threads, Resume
  <2>5. \A q \in Producers : q = w \/ pc'[q] = pc[q]
    BY <1>1, <2>2 DEF Threads
  <2>6. WaitTypes'
    <3>1. pc' \in [Threads -> ProducerLabels \cup ConsumerLabels]
      BY <1>1, <2>1, <2>w, <2>2, <2>4 DEF WaitTypes, ProducerLabels, ConsumerLabels
    <3>2. \A q \in Producers : pc'[q] \in ProducerLabels
      BY <1>1, <2>4, <2>5 DEF WaitTypes, ProducerLabels
    <3> QED
      BY <1>1, <2>2, <2>3, <3>1, <3>2 DEF WaitTypes, ConsumerLabels
  <2>7. Queued("tail_commit", {"asleep_commit", "asleep_empty"})'
    <3>1. \A t \in Threads : pc[t] \in {"asleep_commit", "asleep_empty"} => pc'[t] = pc[t]
      BY <1>1, <2>2
    <3> QED
      BY <1>1, <2>3, <3>1, KeepQueued DEF WaitInv, Addresses
  <2> QED
    BY <2>2, <2>6, <2>7 DEF WaitInv, ConsumerSleeps, NoLostDataWakeup
<1> QED
  BY <1>3, <1>4

LEMMA WaitStep == WaitInv /\ [Next]_vars => WaitInv'
<1> SUFFICES ASSUME WaitInv, [Next]_vars
             PROVE  WaitInv'
  OBVIOUS
<1>1. /\ Consumer \notin Producers /\ Consumer \in Threads /\ DOMAIN seen = Threads
      /\ WaitTypes
  BY WaitAssumption DEF Threads, WaitInv, WaitTypes
<1>2. ASSUME NEW p \in Producers, NEW n \in Sizes, StartPush(p, n)
      PROVE  WaitInv'
  <2>1. /\ pc[p] = "idle" /\ pc' = [pc EXCEPT ![p] = "try"] /\ "try" \in ProducerLabels
        /\ UNCHANGED <<head, tail_commit, waiters, seen>> /\ p \notin Pushing
    BY <1>2 DEF StartPush, Goto, ProducerLabels, ring, Pushing
  <2> QED
    BY <1>1, <2>1, ProducerMoves
<1>3. ASSUME NEW p \in Producers, TryPush(p)
      PROVE  WaitInv'
  <2>1. PICK label \in {"full", "await"} :
           /\ pc[p] = "try" /\ pc' = [pc EXCEPT ![p] = label]
           /\ UNCHANGED <<head, tail_commit, waiters, seen>> /\ p \notin Pushing
    BY <1>3 DEF TryPush, Goto, Pushing
  <2>2. label \in ProducerLabels
    BY DEF ProducerLabels
  <2> QED
    BY <1>1, <2>1, <2>2, ProducerMoves
<1>4. ASSUME NEW p \in Producers, LoadHeadWhenFull(p)
      PROVE  WaitInv'
  <2>1. PICK label \in {"wait_head", "try"} :
           /\ pc[p] = "full" /\ pc' = [pc EXCEPT ![p] = label]
           /\ UNCHANGED <<head, tail_commit, waiters>> /\ p \notin Pushing
    BY <1>4 DEF LoadHeadWhenFull, Goto, Pushing, ring
  <2>2. label \in ProducerLabels
    BY DEF ProducerLabels
  <2>3. DOMAIN seen' = Threads /\ seen'[Consumer] = seen[Consumer]
    BY <1>1, <1>4 DEF LoadHeadWhenFull
  <2> QED
    BY <1>1, <2>1, <2>2, <2>3, ProducerMoves
<1>5. ASSUME NEW p \in Producers, WaitHead(p)
      PROVE  WaitInv'
  <2>1. pc[p] = "wait_head" /\ UNCHANGED <<head, tail_commit, seen>>
    BY <1>5 DEF WaitHead, Wait, ring, locals
  <2>2. CASE head = seen[p]
    <3>1. /\ waiters' = [waiters EXCEPT !["head"] = Append(@, p)]
          /\ pc' = [pc EXCEPT ![p] = "asleep_full"]
      BY <1>5, <2>2 DEF WaitHead, Wait, Goto
    <3> QED
      BY <2>1, <3>1, ProducerSleeps
  <2>3. CASE head # seen[p]
    <3>1. waiters' = waiters /\ pc' = [pc EXCEPT ![p] = "try"] /\ "try" \in ProducerLabels
          /\ p \notin Pushing
      BY <1>5, <2>1, <2>3 DEF WaitHead, Wait, Goto, ProducerLabels, Pushing
    <3> QED
      BY <1>1, <2>1, <3>1, ProducerMoves
  <2> QED
    BY <2>2, <2>3
<1>6. ASSUME NEW p \in Producers, AwaitCommit(p)
      PROVE  WaitInv'
  <2>1. PICK label \in {"commit", "wait_commit", "await"} :
           /\ pc[p] = "await" /\ pc' = [pc EXCEPT ![p] = label]
           /\ UNCHANGED <<head, tail_commit, waiters>>
    BY <1>6 DEF AwaitCommit, Goto, ring
  <2>2. label \in ProducerLabels
    BY DEF ProducerLabels
  <2>3. DOMAIN seen' = Threads /\ seen'[Consumer] = seen[Consumer]
    BY <1>1, <1>6 DEF AwaitCommit
  <2> QED
    BY <1>1, <2>1, <2>2, <2>3, ProducerMoves
<1>7. ASSUME NEW p \in Producers, WaitCommit(p)
      PROVE  WaitInv'
  <2>1. pc[p] = "wait_commit" /\ UNCHANGED <<head, tail_commit, seen>>
    BY <1>7 DEF WaitCommit, Wait, ring, locals
  <2>2. CASE tail_commit = seen[p]
    <3>1. /\ waiters' = [waiters EXCEPT !["tail_commit"] = Append(@, p)]
          /\ pc' = [pc EXCEPT ![p] = "asleep_commit"]
      BY <1>7, <2>2 DEF WaitCommit, Wait, Goto
    <3> QED
      BY <2>1, <3>1, ProducerSleeps
  <2>3. CASE tail_commit # seen[p]
    <3>1. waiters' = waiters /\ pc' = [pc EXCEPT ![p] = "await"] /\ "await" \in ProducerLabels
      BY <1>7, <2>3 DEF WaitCommit, Wait, Goto, ProducerLabels
    <3> QED
      BY <1>1, <2>1, <3>1, ProducerMoves
  <2> QED
    BY <2>2, <2>3
<1>8. ASSUME NEW p \in Producers, StoreCommit(p)
      PROVE  WaitInv'
  <2>1. /\ pc[p] = "commit" /\ pc' = [pc EXCEPT ![p] = "notify"] /\ "notify" \in ProducerLabels
        /\ UNCHANGED <<head, waiters, seen>>
    BY <1>8 DEF StoreCommit, Goto, ProducerLabels, locals
  <2> QED
    BY <1>1, <2>1, ProducerMoves
<1>9. CASE TryPop
  <2>1. PICK label \in {"empty", "notify"} :
           /\ pc[Consumer] = "pop" /\ pc' = [pc EXCEPT ![Consumer] = label]
           /\ UNCHANGED <<waiters, seen>>
    BY <1>9 DEF TryPop, Goto, locals
  <2>2. label \in ConsumerLabels \ {"asleep_empty"} /\ label # "wait_data"
    BY DEF ConsumerLabels
  <2> QED
    BY <1>1, <2>1, <2>2, ConsumerMoves
<1>10. CASE WaitForData
  <2>1. PICK label \in {"pop", "wait_data"} :
           /\ pc[Consumer] = "empty" /\ pc' = [pc EXCEPT ![Consumer] = label]
           /\ UNCHANGED <<head, waiters>>
           /\ label = "wait_data" => head = tail_commit
    BY <1>10 DEF WaitForData, Goto, ring
  <2>2. label \in ConsumerLabels \ {"asleep_empty"}
    BY DEF ConsumerLabels
  <2>3. DOMAIN seen' = Threads /\ seen'[Consumer] = tail_commit
    BY <1>1, <1>10 DEF WaitForData
  <2> QED
    BY <1>1, <2>1, <2>2, <2>3, ConsumerMoves
<1>11. CASE WaitData
  <2>1. CASE tail_commit = seen[Consumer]
    BY <1>11, <2>1, ConsumerGoesToSleep
  <2>2. CASE tail_commit # seen[Consumer]
    <3>1. /\ pc[Consumer] = "wait_data" /\ pc' = [pc EXCEPT ![Consumer] = "empty"]
          /\ UNCHANGED <<waiters, seen>> /\ "empty" \in ConsumerLabels \ {"asleep_empty"}
      BY <1>11, <2>2 DEF WaitData, Wait, Goto, locals, ConsumerLabels
    <3> QED
      BY <1>1, <3>1, ConsumerMoves
  <2> QED
    BY <2>1, <2>2
<1>12. CASE UNCHANGED vars
  <2>1. UNCHANGED <<head, tail_commit, waiters, pc, seen>>
    BY <1>12 DEF vars, ring, locals
  <2> QED
    BY <2>1 DEF WaitInv, WaitTypes, Queued, ConsumerSleeps, NoLostDataWakeup, Pushing
<1> QED
  BY <1>2, <1>3, <1>4, <1>5, <1>6, <1>7, <1>8, <1>9, <1>10, <1>11, <1>12,
     ProducerNotifies, ConsumerNotifies DEF Next, PushStep, PopStep

\* A consumer asleep in wait_for_data next to committed data has a producer
\* on its way to a notify, for any number of producers, any mix of threads
\* that wait and threads that spin, and any capacity: the load, compare and
\* sleep of wait_for_data miss no commit, and a notify that wakes another
\* producer instead of the consumer hands the duty on to that producer.
THEOREM NoDataWakeupIsLost == Spec => []NoLostDataWakeup
<1>1. WaitInv => NoLostDataWakeup
  BY DEF WaitInv
<1> QED
  BY <1>1, WaitInit, WaitStep, PTL DEF Spec
=============================================================================
