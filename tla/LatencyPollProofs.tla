-------------------------- MODULE LatencyPollProofs --------------------------
(****************************************************************************)
(* What the samples and the report of the measurement thread are worth, for *)
(* every set of slacks and every number of samples.                         *)
(****************************************************************************)
EXTENDS LatencyPoll, FiniteSetTheorems, TLAPS

-----------------------------------------------------------------------------
(* Counting over a sequence.                                                *)

\* A count is a natural number.
LEMMA AtMostNat ==
  ASSUME NEW R, NEW s \in Seq(R), NEW b \in Int
  PROVE  AtMost(s, b) \in Nat
<1>1. IsFiniteSet(1 .. Len(s))
  BY FS_Interval
<1>2. IsFiniteSet({j \in 1 .. Len(s) : s[j] <= b})
  BY <1>1, FS_Subset
<1> QED
  BY <1>2, FS_CardinalityType DEF AtMost

\* Nothing to count in an empty sequence.
LEMMA AtMostEmpty ==
  ASSUME NEW b \in Int
  PROVE  AtMost(<<>>, b) = 0
<1>1. {j \in 1 .. Len(<<>>) : <<>>[j] <= b} = {}
  OBVIOUS
<1> QED
  BY <1>1, FS_EmptySet DEF AtMost

\* A new element counts for one if it is at most the bound.
LEMMA AtMostAppend ==
  ASSUME NEW s \in Seq(Slacks), NEW x \in Slacks, NEW b \in Int
  PROVE  AtMost(Append(s, x), b) = AtMost(s, b) + One(x <= b)
<1> DEFINE S == {j \in 1 .. Len(s) : s[j] <= b}
           T == {j \in 1 .. Len(Append(s, x)) : Append(s, x)[j] <= b}
<1>1. IsFiniteSet(S)
  BY FS_Interval, FS_Subset
<1>2. /\ Len(Append(s, x)) = Len(s) + 1
      /\ Append(s, x)[Len(s) + 1] = x
      /\ \A j \in 1 .. Len(s) : Append(s, x)[j] = s[j]
      /\ Len(s) \in Nat
  OBVIOUS
<1>3. AtMost(Append(s, x), b) = Cardinality(T) /\ AtMost(s, b) = Cardinality(S)
  BY DEF AtMost
<1>4. CASE x <= b
  <2>1. T = S \cup {Len(s) + 1}
    BY <1>2, <1>4
  <2>2. Len(s) + 1 \notin S
    BY <1>2
  <2>3. Cardinality(T) = Cardinality(S) + 1
    <3> HIDE DEF S, T
    <3> QED
      BY <1>1, <2>1, <2>2, FS_AddElement
  <2> QED
    BY <1>3, <1>4, <2>3 DEF One
<1>5. CASE ~(x <= b)
  <2>1. T = S
    BY <1>2, <1>5
  <2>2. Cardinality(T) = Cardinality(S) /\ Cardinality(S) \in Nat
    BY <1>1, <2>1, FS_CardinalityType
  <2> HIDE DEF S, T
  <2> QED
    BY <1>3, <1>5, <2>2 DEF One
<1> QED
  BY <1>4, <1>5

\* What is cut off a latency keeps its order: lines show as many latencies beyond
\* a threshold, shown like them, as there are samples beyond it.
LEMMA ShownOrder ==
  ASSUME NEW l \in Lcas, NEW x \in Int, NEW b \in Int
  PROVE  Shown(l, x) \in Int /\ (x <= b => Shown(l, x) <= Shown(l, b))
<1>1. x % 2 \in {0, 1} /\ b % 2 \in {0, 1}
  OBVIOUS
<1>2. x = b \/ x < b \/ x > b
  OBVIOUS
<1> QED
  BY <1>1, <1>2 DEF Shown

LEMMA AtMostShown ==
  ASSUME NEW l \in Lcas, NEW s \in Seq(Slacks), NEW t \in Seq(Int), NEW b \in Int,
         Len(s) = Len(t), \A j \in 1 .. Len(s) : t[j] = Shown(l, s[j])
  PROVE  AtMost(s, b) <= AtMost(t, Shown(l, b))
<1> DEFINE S == {j \in 1 .. Len(s) : s[j] <= b}
           T == {j \in 1 .. Len(t) : t[j] <= Shown(l, b)}
<1>1. ASSUME NEW j \in 1 .. Len(s), s[j] <= b PROVE t[j] <= Shown(l, b)
  <2>1. s[j] \in Slacks
    OBVIOUS
  <2>2. s[j] \in Int
    BY <2>1, SlackAssumption
  <2> QED
    BY <1>1, <2>2, ShownOrder
<1>2. S \subseteq T
  BY <1>1
<1>3. IsFiniteSet(T)
  <2>1. IsFiniteSet(1 .. Len(t))
    BY FS_Interval
  <2> QED
    BY <2>1, FS_Subset
<1>4. Cardinality(S) <= Cardinality(T)
  <2> HIDE DEF S, T
  <2> QED
    BY <1>2, <1>3, FS_Subset
<1> QED
  BY <1>4 DEF AtMost

-----------------------------------------------------------------------------
(* The invariant.                                                           *)

\* The first poll.
LEMMA InitIInv == Init => IInv
<1> SUFFICES ASSUME Init PROVE IInv
  OBVIOUS
<1> USE DEF Init
<1>1. NoReply \in Slacks
  BY SlackAssumption DEF NoReply
<1>2. RoundStart \in [phase : Phases, lca : Lcas]
  BY DEF RoundStart, At, Phases, Lcas
<1>3. TypeOK
  <2>1. samples \in [Lcas -> Seq(Slacks)] /\ lines \in [Lcas -> Seq(Int)]
    OBVIOUS
  <2>2. v_f \in [Lcas -> Nat] /\ v_t \in [Lcas -> Nat] /\ printed \in Seq(Nat)
    OBVIOUS
  <2>3. cpl \in [Lcas -> Slacks]
    BY <1>1
  <2> QED
    BY <1>1, <1>2, <2>1, <2>2, <2>3 DEF TypeOK
<1>4. PollInv
  BY DEF PollInv
<1>5. \A l \in Lcas : ~PendingF(l) /\ ~PendingT(l) /\ ~Pushing(l)
  BY DEF PendingF, PendingT, Pushing, RoundStart, At
<1>6. \A b \in Int : AtMost(<<>>, b) = 0
  BY AtMostEmpty
<1>7. CountInv
  BY <1>5, <1>6 DEF CountInv, One, Lcas, SlackUp
<1>8. PrintedInv /\ LinesInv
  BY DEF PrintedInv, LinesInv, Complete
<1> QED
  BY <1>3, <1>4, <1>7, <1>8 DEF IInv

\* While the report stands still its invariants only need the counters and the
\* vectors to grow.
LEMMA ReportKept ==
  ASSUME IInv, UNCHANGED report,
         \A l \in Lcas : /\ v_f'[l] \in Nat /\ v_f[l] <= v_f'[l]
                         /\ v_t'[l] \in Nat /\ v_t[l] <= v_t'[l],
         \A l \in Lcas : \/ samples'[l] = samples[l]
                         \/ \E s \in Slacks : samples'[l] = Append(samples[l], s)
  PROVE  PrintedInv' /\ LinesInv'
<1> USE DEF report
<1>1. \A n \in 1 .. Len(printed) : LcaOf(n) \in Lcas
  BY DEF LcaOf, Lcas
<1>2. PrintedInv'
  <2>1. \A n \in 1 .. Len(printed) :
          CounterOf(n) \in Nat /\ CounterOf(n)' \in Nat /\ CounterOf(n) <= CounterOf(n)'
    BY <1>1 DEF CounterOf, LcaOf, IInv, TypeOK
  <2>2. \A n \in 1 .. Len(printed) : printed[n] \in Nat
    BY DEF IInv, TypeOK
  <2> QED
    BY <2>1, <2>2 DEF IInv, PrintedInv
<1>3. \A l \in Lcas : /\ Len(samples[l]) \in Nat /\ Len(samples'[l]) \in Nat
                      /\ Len(samples[l]) <= Len(samples'[l])
                      /\ \A j \in 1 .. Len(samples[l]) :
                           samples'[l][j] = samples[l][j]
  <2> TAKE l \in Lcas
  <2>1. samples[l] \in Seq(Slacks)
    BY DEF IInv, TypeOK
  <2>2. CASE samples'[l] = samples[l]
    BY <2>1, <2>2
  <2>3. ASSUME NEW s \in Slacks, samples'[l] = Append(samples[l], s)
        PROVE  /\ Len(samples'[l]) = Len(samples[l]) + 1
               /\ \A j \in 1 .. Len(samples[l]) : samples'[l][j] = samples[l][j]
    BY <2>1, <2>3
  <2> QED
    BY <2>1, <2>2, <2>3
<1>4. \A l \in Lcas : Len(lines[l]) \in Nat
  BY DEF IInv, TypeOK
<1>5. LinesInv'
  <2> SUFFICES ASSUME ~garbled PROVE LinesInv'
    BY DEF LinesInv
  <2>1. ASSUME NEW l \in Lcas
        PROVE  /\ Len(lines[l]) <= Len(samples'[l])
               /\ \A j \in 1 .. Len(lines[l]) : lines[l][j] = Shown(l, samples'[l][j])
    <3>1. /\ Len(lines[l]) <= Len(samples[l])
          /\ \A j \in 1 .. Len(lines[l]) : lines[l][j] = Shown(l, samples[l][j])
      BY DEF IInv, LinesInv
    <3>2. Len(lines[l]) <= Len(samples'[l])
      BY <1>3, <1>4, <3>1
    <3>3. ASSUME NEW j \in 1 .. Len(lines[l])
          PROVE  lines[l][j] = Shown(l, samples'[l][j])
      <4>1. j \in 1 .. Len(samples[l])
        BY <1>3, <1>4, <3>1
      <4>2. samples'[l][j] = samples[l][j]
        BY <1>3, <4>1
      <4> QED
        BY <3>1, <4>2
    <3> QED
      BY <3>2, <3>3
  <2>2. \A n \in 1 .. 8 : Complete(LcaOf(n)) => CountShown(n)
    BY DEF IInv, LinesInv
  <2>3. rpc = "exited" => Len(lines["xapian"]) + 1 >= Len(lines["memcached"])
    BY DEF IInv, LinesInv
  <2> QED
    BY <2>1, <2>2, <2>3 DEF LinesInv, Complete, CountShown
<1> QED
  BY <1>2, <1>5

\* The poll leaves vectors and counters alone, but not the results to push: no
\* count is pending then.
LEMMA PollIInv == IInv /\ Poll => IInv'
<1> SUFFICES ASSUME IInv, Poll PROVE IInv'
  OBVIOUS
<1>1. NoReply \in Slacks
  BY SlackAssumption DEF NoReply
<1>2. at.phase = "poll" /\ UNCHANGED <<samples, counts, report>>
  BY DEF Poll, Refused, Connect, WholeReply, PartOfReply, Close, Polling
<1>3. at' \in [phase : Phases, lca : Lcas] /\ cpl' \in [Lcas -> Slacks]
  <2>1. CASE \E s \in Slacks : Return(s)
    BY <2>1 DEF Return, At, Phases, Lcas, IInv, TypeOK
  <2>2. CASE UNCHANGED <<at, cpl>>
    BY <2>2 DEF IInv, TypeOK
  <2> QED
    BY <1>1, <2>1, <2>2 DEF Poll, Refused, Connect, WholeReply, PartOfReply, Close,
       IInv, TypeOK
<1>4. TypeOK'
  <2>1. /\ conn' \in {"closed", "open"}
        /\ got' \in {"nothing", "whole", "parts"}
        /\ reply' \in Slacks
        /\ service_time' \in Slacks
    BY <1>1 DEF Poll, Refused, Connect, WholeReply, PartOfReply, Close, Return, IInv,
       TypeOK
  <2> QED
    BY <1>2, <1>3, <2>1 DEF IInv, TypeOK, counts, report
<1>5. PollInv'
  BY <1>2 DEF Poll, Refused, Connect, WholeReply, PartOfReply, Close, Polling, Return,
     IInv, PollInv
<1>6. at'.phase = "poll" \/ at' = At("push", "memcached")
  BY <1>2 DEF Poll, Refused, Connect, WholeReply, PartOfReply, Close, Return, At
<1>7. \A l \in Lcas : ~PendingF(l) /\ ~PendingT(l)
  BY <1>2 DEF PendingF, PendingT, Pushing, At
<1>8. \A l \in Lcas : ~PendingF(l)' /\ ~PendingT(l)'
  BY <1>6 DEF PendingF, PendingT, Pushing, At
<1>9. ~Pushing("xapian") /\ ~Pushing("xapian")'
  BY <1>2, <1>6 DEF Pushing, At
<1>10. CountInv'
  BY <1>2, <1>7, <1>8, <1>9 DEF IInv, CountInv, One, counts
<1>11. PrintedInv' /\ LinesInv'
  BY <1>2, ReportKept DEF counts, IInv, TypeOK
<1> QED
  BY <1>4, <1>5, <1>10, <1>11 DEF IInv

\* A push that completes hands its sample over to the counts that are pending.
LEMMA PushedIInv ==
  ASSUME IInv, NEW l \in Lcas,
         at \in {At("push", l), At("grow", l)}, at' = After(l), Pushed(l),
         UNCHANGED <<poll, cpl, counts, report>>
  PROVE  IInv'
<1> USE DEF IInv
<1>1. /\ samples[l] \in Seq(Slacks) /\ cpl[l] \in Slacks
      /\ samples' \in [Lcas -> Seq(Slacks)]
      /\ samples'[l] = Append(samples[l], cpl[l])
      /\ \A k \in Lcas : k # l => samples'[k] = samples[k]
  BY DEF TypeOK, Pushed
<1>2. TypeOK'
  <2>1. at' \in [phase : Phases, lca : Lcas]
    BY DEF After, At, Phases, Lcas
  <2> QED
    BY <1>1, <2>1 DEF TypeOK, poll, counts, report
<1>3. PollInv'
  BY DEF PollInv, poll, At
<1>4. \A b \in Int : AtMost(samples'[l], b) = AtMost(samples[l], b) + One(cpl[l] <= b)
  BY <1>1, AtMostAppend
<1>5. /\ ~PendingF(l) /\ ~PendingT(l) /\ PendingF(l)' /\ PendingT(l)'
      /\ \A k \in Lcas : k # l => /\ PendingF(k)' = PendingF(k)
                                 /\ PendingT(k)' = PendingT(k)
  BY DEF PendingF, PendingT, Pushing, After, At, Lcas
<1>6. CountInv'
  <2>1. ASSUME NEW k \in Lcas
        PROVE  /\ v_f'[k] + One(PendingF(k)' /\ cpl'[k] <= SlackUp)
                    = AtMost(samples'[k], SlackUp)
               /\ v_t'[k] + One(PendingT(k)' /\ cpl'[k] <= -1) = AtMost(samples'[k], -1)
    <3>1. v_f[k] \in Nat /\ v_t[k] \in Nat
      BY DEF TypeOK
    <3>2. CASE k = l
      <4>1. v_f[l] = AtMost(samples[l], SlackUp) /\ v_t[l] = AtMost(samples[l], -1)
        BY <1>5, <3>1, <3>2 DEF CountInv, One
      <4> QED
        BY <1>4, <1>5, <3>2, <4>1 DEF One, counts, SlackUp
    <3>3. CASE k # l
      BY <1>1, <1>5, <3>3 DEF CountInv, One, counts
    <3> QED
      BY <3>2, <3>3
  <2>2. Len(samples'["memcached"])
          = Len(samples'["xapian"]) + One(Pushing("xapian")')
    <3>1. Len(samples'[l]) = Len(samples[l]) + 1 /\ Len(samples[l]) \in Nat
      BY <1>1
    <3>2. /\ Pushing("xapian") <=> l = "xapian"
          /\ Pushing("xapian")' <=> l = "memcached"
      BY DEF Pushing, After, At, Lcas
    <3>3. CASE l = "memcached"
      BY <1>1, <3>1, <3>2, <3>3 DEF CountInv, One, Lcas
    <3>4. CASE l = "xapian"
      BY <1>1, <3>1, <3>2, <3>4 DEF CountInv, One, Lcas
    <3> QED
      BY <3>3, <3>4 DEF Lcas
  <2> QED
    BY <2>1, <2>2 DEF CountInv, SlackUp
<1>7. PrintedInv' /\ LinesInv'
  <2>1. \A k \in Lcas : /\ v_f'[k] \in Nat /\ v_f[k] <= v_f'[k]
                        /\ v_t'[k] \in Nat /\ v_t[k] <= v_t'[k]
    BY DEF TypeOK, counts
  <2>2. \A k \in Lcas : \/ samples'[k] = samples[k]
                        \/ \E s \in Slacks : samples'[k] = Append(samples[k], s)
    BY <1>1
  <2> QED
    BY <2>1, <2>2, ReportKept
<1> QED
  BY <1>2, <1>3, <1>6, <1>7

\* Counting a sample settles what is pending for its counter.
LEMMA CountIInv ==
  ASSUME IInv, NEW l \in Lcas, CountF(l) \/ CountT(l)
  PROVE  IInv'
<1> USE DEF IInv
<1>1. v_f \in [Lcas -> Nat] /\ v_t \in [Lcas -> Nat] /\ cpl[l] \in Int
  BY SlackAssumption DEF TypeOK
<1>2. UNCHANGED <<poll, cpl, samples, report>>
  BY DEF CountF, CountT
<1>3. at' \in [phase : Phases, lca : Lcas]
  BY DEF CountF, CountT, At, RoundStart, Phases, Lcas
<1>4. v_f' \in [Lcas -> Nat] /\ v_t' \in [Lcas -> Nat]
  BY <1>1 DEF CountF, CountT
<1>5. TypeOK'
  BY <1>2, <1>3, <1>4 DEF TypeOK, poll, report
<1>6. PollInv'
  BY <1>2 DEF CountF, CountT, PollInv, poll, At
<1>7. CountInv'
  <2>1. ~Pushing("xapian") /\ ~Pushing("xapian")'
    BY DEF CountF, CountT, Pushing, At, RoundStart
  <2>2. ASSUME CountF(l), NEW k \in Lcas
        PROVE  /\ v_f'[k] + One(PendingF(k)' /\ cpl[k] <= SlackUp)
                    = v_f[k] + One(PendingF(k) /\ cpl[k] <= SlackUp)
               /\ v_t'[k] + One(PendingT(k)' /\ cpl[k] <= -1)
                    = v_t[k] + One(PendingT(k) /\ cpl[k] <= -1)
    <3>1. /\ PendingF(l) /\ ~PendingF(l)'
          /\ k # l => PendingF(k)' = PendingF(k)
          /\ PendingT(k)' = PendingT(k)
      BY <2>2 DEF CountF, PendingF, PendingT, Pushing, At, Lcas
    <3>2. /\ v_f'[l] = IF cpl[l] <= SlackUp THEN v_f[l] + 1 ELSE v_f[l]
          /\ k # l => v_f'[k] = v_f[k]
          /\ v_t' = v_t
      BY <1>1, <2>2 DEF CountF
    <3> QED
      BY <1>1, <3>1, <3>2 DEF One
  <2>3. ASSUME CountT(l), NEW k \in Lcas
        PROVE  /\ v_f'[k] + One(PendingF(k)' /\ cpl[k] <= SlackUp)
                    = v_f[k] + One(PendingF(k) /\ cpl[k] <= SlackUp)
               /\ v_t'[k] + One(PendingT(k)' /\ cpl[k] <= -1)
                    = v_t[k] + One(PendingT(k) /\ cpl[k] <= -1)
    <3>1. /\ PendingT(l) /\ ~PendingT(l)'
          /\ k # l => PendingT(k)' = PendingT(k)
          /\ PendingF(k)' = PendingF(k)
      BY <2>3 DEF CountT, PendingF, PendingT, Pushing, At, RoundStart, Lcas
    <3>2. /\ v_t'[l] = IF cpl[l] <= -1 THEN v_t[l] + 1 ELSE v_t[l]
          /\ k # l => v_t'[k] = v_t[k]
          /\ v_f' = v_f
      BY <1>1, <2>3 DEF CountT
    <3> QED
      BY <1>1, <3>1, <3>2 DEF One
  <2>4. ASSUME NEW k \in Lcas
        PROVE  /\ v_f'[k] + One(PendingF(k)' /\ cpl[k] <= SlackUp)
                    = AtMost(samples[k], SlackUp)
               /\ v_t'[k] + One(PendingT(k)' /\ cpl[k] <= -1) = AtMost(samples[k], -1)
    BY <2>2, <2>3 DEF CountInv, One
  <2>5. Len(samples["memcached"])
          = Len(samples["xapian"]) + One(Pushing("xapian")')
    BY <2>1 DEF CountInv, One
  <2> QED
    BY <1>2, <2>4, <2>5 DEF CountInv, SlackUp
<1>8. PrintedInv' /\ LinesInv'
  <2>1. \A k \in Lcas : /\ v_f'[k] \in Nat /\ v_f[k] <= v_f'[k]
                        /\ v_t'[k] \in Nat /\ v_t[k] <= v_t'[k]
    BY <1>1, <1>4 DEF CountF, CountT
  <2> QED
    BY <1>2, <2>1, ReportKept
<1> QED
  BY <1>5, <1>6, <1>7, <1>8

\* A round of the measurement thread after its polls.
LEMMA RecordIInv == IInv /\ Record => IInv'
<1> SUFFICES ASSUME IInv, NEW l \in Lcas,
                    Push(l) \/ Grown(l) \/ CountF(l) \/ CountT(l)
             PROVE  IInv'
  BY DEF Record
<1>1. CASE Push(l) /\ at' = After(l)
  BY <1>1, PushedIInv DEF Push, After, At
<1>2. CASE Push(l) /\ at' = At("grow", l)
  <2>1. UNCHANGED <<poll, cpl, samples, counts, report>>
    BY <1>2 DEF Push, After, At
  <2>2. TypeOK'
    <3>1. at' \in [phase : Phases, lca : Lcas]
      BY <1>2 DEF At, Phases
    <3> QED
      BY <2>1, <3>1 DEF IInv, TypeOK, poll, counts, report
  <2>3. PollInv'
    BY <1>2, <2>1 DEF Push, IInv, PollInv, poll, At
  <2>4. /\ \A k \in Lcas : PendingF(k)' = PendingF(k) /\ PendingT(k)' = PendingT(k)
        /\ Pushing("xapian")' = Pushing("xapian")
    BY <1>2 DEF Push, PendingF, PendingT, Pushing, At, Lcas
  <2>5. CountInv'
    BY <2>1, <2>4 DEF IInv, CountInv, counts
  <2>6. PrintedInv' /\ LinesInv'
    BY <2>1, ReportKept DEF IInv, TypeOK, counts
  <2> QED
    BY <2>2, <2>3, <2>5, <2>6 DEF IInv
<1>3. CASE Grown(l)
  BY <1>3, PushedIInv DEF Grown
<1>4. CASE CountF(l) \/ CountT(l)
  BY <1>4, CountIInv
<1> QED
  BY <1>1, <1>2, <1>3, <1>4 DEF Push

\* The report reads only: the invariants of the measurement thread are untouched.
LEMMA ReadOnly ==
  ASSUME IInv, UNCHANGED <<at, poll, cpl, samples, counts>>
  PROVE  PollInv' /\ CountInv'
<1>1. PollInv'
  BY DEF IInv, PollInv, poll
<1>2. CountInv'
  BY DEF IInv, CountInv, PendingF, PendingT, Pushing, One, counts
<1> QED
  BY <1>1, <1>2

\* The counters.
LEMMA PrintIInv == IInv /\ (Signal \/ print_logs_v2) => IInv'
<1> SUFFICES ASSUME IInv, Signal \/ print_logs_v2 PROVE IInv'
  OBVIOUS
<1> USE DEF IInv
<1>1. UNCHANGED <<at, poll, cpl, samples, counts, lines, garbled>>
  BY DEF Signal, print_logs_v2
<1>2. PollInv' /\ CountInv'
  BY <1>1, ReadOnly
<1>3. rpc \in {"none", "counters"} /\ rpc' \in {"counters", "file"}
  BY DEF Signal, print_logs_v2
<1>4. \A n \in Nat : CounterOf(n) \in Nat
  BY DEF TypeOK, CounterOf, LcaOf, Lcas
<1>5. printed \in Seq(Nat) /\ Len(printed) \in Nat
  BY DEF TypeOK
<1>6. /\ printed' \in Seq(Nat)
      /\ PrintedInv'
  <2>1. CASE Signal
    BY <1>5, <2>1 DEF Signal, PrintedInv, CounterOf, counts
  <2>2. CASE print_logs_v2
    <3> DEFINE c == CounterOf(Len(printed) + 1)
    <3>1. c \in Nat
      BY <1>4, <1>5
    <3>2. printed' = Append(printed, c) /\ rpc = "counters"
      BY <2>2 DEF print_logs_v2
    <3>3. c = CounterOf(Len(printed) + 1)
      OBVIOUS
    <3>4. \A n \in 1 .. Len(printed) : printed[n] <= CounterOf(n)
      BY DEF PrintedInv
    <3> HIDE DEF c
    <3>5. /\ printed' \in Seq(Nat)
          /\ Len(printed') = Len(printed) + 1
          /\ \A n \in 1 .. Len(printed) : printed'[n] = printed[n]
          /\ printed'[Len(printed) + 1] = c
      BY <1>5, <3>1, <3>2
    <3>6. \A n \in 1 .. Len(printed') : printed'[n] <= CounterOf(n)
      <4> TAKE n \in 1 .. Len(printed')
      <4>1. CASE n = Len(printed) + 1
        BY <3>1, <3>5, <3>3, <4>1
      <4>2. CASE n # Len(printed) + 1
        BY <1>5, <3>5, <3>4, <4>2
      <4> QED
        BY <4>1, <4>2
    <3>7. \A n \in Nat : CounterOf(n)' = CounterOf(n)
      BY <1>1 DEF CounterOf, counts
    <3>8. \A n \in 1 .. Len(printed') : printed'[n] <= CounterOf(n)'
      BY <1>5, <3>5, <3>6, <3>7
    <3>9. Len(printed) <= 7
      BY <3>2 DEF PrintedInv
    <3>10. rpc' = IF Len(printed) = 7 THEN "file" ELSE "counters"
      BY <2>2 DEF print_logs_v2
    <3>11. /\ Len(printed') <= 8
           /\ rpc' = "counters" => Len(printed') <= 7
           /\ rpc' = "file" => Len(printed') = 8
           /\ rpc' \in {"counters", "file"}
      <4>1. Len(printed') = Len(printed) + 1 /\ Len(printed) \in Nat
        BY <1>5, <3>5
      <4>2. CASE Len(printed) = 7
        BY <3>10, <4>1, <4>2
      <4>3. CASE Len(printed) # 7
        <5>1. \A k \in Nat : k <= 7 /\ k # 7 => k + 1 <= 7
          OBVIOUS
        <5>2. Len(printed') <= 7
          BY <3>9, <4>1, <4>3, <5>1
        <5> QED
          BY <3>10, <4>1, <4>3, <5>2
      <4> QED
        BY <4>2, <4>3
    <3>12. PrintedInv'
      BY <3>8, <3>11 DEF PrintedInv
    <3> QED
      BY <3>5, <3>12
  <2> QED
    BY <2>1, <2>2
<1>7. TypeOK'
  BY <1>1, <1>3, <1>6 DEF TypeOK, Signal, print_logs_v2, poll, counts
<1>8. LinesInv'
  <2>1. \A n \in 1 .. 8 : Complete(LcaOf(n))' => FALSE
    BY <1>3 DEF Complete
  <2> QED
    BY <1>1, <1>3, <2>1 DEF LinesInv
<1> QED
  BY <1>2, <1>6, <1>7, <1>8

\* A file that ends outside a reallocation has caught up with its vector, and so
\* with the counters printed before.
LEMMA CaughtUp ==
  ASSUME IInv, rpc \in {"file", "file_xpn"}, NEW l \in Lcas, ~garbled,
         Len(lines[l]) >= Len(samples[l]),
         NEW n \in 1 .. 8, LcaOf(n) = l
  PROVE  /\ Len(lines[l]) = Len(samples[l])
         /\ CountShown(n)
<1> USE DEF IInv
<1>1. /\ lines[l] \in Seq(Int) /\ samples[l] \in Seq(Slacks)
      /\ Len(lines[l]) \in Nat /\ Len(samples[l]) \in Nat
  BY DEF TypeOK
<1>2. /\ Len(lines[l]) = Len(samples[l])
      /\ \A j \in 1 .. Len(lines[l]) : lines[l][j] = Shown(l, samples[l][j])
  BY <1>1 DEF LinesInv
<1>3. BoundOf(n) \in Int
  BY DEF BoundOf, SlackUp
<1>4. AtMost(samples[l], BoundOf(n)) <= AtMost(lines[l], Shown(l, BoundOf(n)))
  BY <1>1, <1>2, <1>3, AtMostShown
<1>5. AtMost(samples[l], SlackUp) \in Nat /\ AtMost(samples[l], -1) \in Nat
  <2>1. SlackUp \in Int /\ -1 \in Int
    BY DEF SlackUp
  <2> HIDE DEF IInv
  <2> QED
    BY <1>1, <2>1, AtMostNat
<1>6. v_f[l] \in Nat /\ v_t[l] \in Nat
  BY DEF TypeOK
<1>7. v_f[l] <= AtMost(samples[l], SlackUp) /\ v_t[l] <= AtMost(samples[l], -1)
  BY <1>5, <1>6 DEF CountInv, One
<1>8. CounterOf(n) <= AtMost(samples[l], BoundOf(n))
  BY <1>7 DEF CounterOf, BoundOf
<1>9. printed[n] <= CounterOf(n) /\ printed[n] \in Nat
  <2>1. n \in 1 .. Len(printed)
    BY DEF PrintedInv
  <2>2. printed \in Seq(Nat)
    BY DEF TypeOK
  <2> QED
    BY <2>1, <2>2 DEF PrintedInv
<1>10. CounterOf(n) \in Nat /\ AtMost(samples[l], BoundOf(n)) \in Nat
  BY <1>5, <1>6 DEF CounterOf, BoundOf
<1>11. AtMost(lines[l], Shown(l, BoundOf(n))) \in Nat
  <2>1. Shown(l, BoundOf(n)) \in Int
    BY <1>3, ShownOrder
  <2> QED
    BY <1>1, <2>1, AtMostNat
<1> QED
  BY <1>2, <1>4, <1>8, <1>9, <1>10, <1>11 DEF CountShown

\* The files.
LEMMA FilesIInv == IInv /\ (PrintLine \/ PrintGarbled \/ EndFile) => IInv'
<1> SUFFICES ASSUME IInv, PrintLine \/ PrintGarbled \/ EndFile PROVE IInv'
  OBVIOUS
<1> USE DEF IInv
<1>1. UNCHANGED <<at, poll, cpl, samples, counts, reporter, printed>>
  BY DEF PrintLine, PrintGarbled, EndFile
<1>2. PollInv' /\ CountInv'
  BY <1>1, ReadOnly
<1>3. /\ rpc \in {"file", "file_xpn"}
      /\ rpc' \in {rpc, NextFile, "faulted"}
  BY DEF PrintLine, PrintGarbled, EndFile
<1>4. PrintedInv'
  BY <1>1, <1>3 DEF PrintedInv, CounterOf, counts, NextFile
<1>5. Written \in Lcas
  BY DEF Written, Lcas
<1>6. lines' \in [Lcas -> Seq(Int)]
  <2>1. ASSUME NEW s \in Slacks, Line(Written, s) PROVE lines' \in [Lcas -> Seq(Int)]
    <3>1. Shown(Written, s) \in Int
      BY <1>5, ShownOrder, SlackAssumption
    <3> QED
      BY <1>5, <2>1, <3>1 DEF Line, TypeOK
  <2>2. CASE PrintLine
    <3>1. lines[Written] \in Seq(Int) /\ samples[Written] \in Seq(Slacks)
      BY <1>5 DEF TypeOK
    <3>2. samples[Written][Len(lines[Written]) + 1] \in Slacks
      <4>1. Len(lines[Written]) < Len(samples[Written])
        BY <2>2 DEF PrintLine
      <4> QED
        BY <3>1, <4>1
    <3> QED
      BY <2>1, <2>2, <3>2 DEF PrintLine
  <2>3. CASE PrintGarbled
    BY <2>1, <2>3 DEF PrintGarbled, TypeOK
  <2>4. CASE EndFile
    BY <2>4 DEF EndFile, TypeOK
  <2> QED
    BY <2>2, <2>3, <2>4
<1>7. TypeOK'
  BY <1>1, <1>3, <1>6 DEF TypeOK, PrintLine, PrintGarbled, EndFile, NextFile, poll,
     counts
<1>8. LinesInv'
  <2>1. CASE PrintGarbled
    BY <2>1 DEF PrintGarbled, LinesInv
  <2>2. CASE PrintLine
    <3> SUFFICES ASSUME ~garbled PROVE LinesInv'
      BY <2>2 DEF PrintLine, LinesInv
    <3> DEFINE w == Written
               s == Shown(w, samples[w][Len(lines[w]) + 1])
    <3>1. /\ lines[w] \in Seq(Int) /\ samples[w] \in Seq(Slacks)
          /\ Len(lines[w]) \in Nat /\ Len(samples[w]) \in Nat
          /\ Len(lines[w]) < Len(samples[w])
      BY <1>5, <2>2 DEF PrintLine, TypeOK
    <3>2. /\ lines'[w] = Append(lines[w], s)
          /\ \A l \in Lcas : l # w => lines'[l] = lines[l]
      BY <1>5, <2>2 DEF PrintLine, Line, TypeOK
    <3>3. /\ Len(lines'[w]) = Len(lines[w]) + 1
          /\ lines'[w][Len(lines[w]) + 1] = s
          /\ \A j \in 1 .. Len(lines[w]) : lines'[w][j] = lines[w][j]
      BY <3>1, <3>2
    <3>4. /\ Len(lines'[w]) <= Len(samples[w])
          /\ \A j \in 1 .. Len(lines'[w]) : lines'[w][j] = Shown(w, samples[w][j])
      <4>1. \A j \in 1 .. Len(lines[w]) : lines[w][j] = Shown(w, samples[w][j])
        BY <1>5 DEF LinesInv
      <4> HIDE DEF w
      <4>2. Len(lines'[w]) <= Len(samples[w])
        BY <3>1, <3>3
      <4>3. ASSUME NEW j \in 1 .. Len(lines'[w])
            PROVE  lines'[w][j] = Shown(w, samples[w][j])
        <5>1. CASE j = Len(lines[w]) + 1
          BY <3>3, <5>1
        <5>2. CASE j # Len(lines[w]) + 1
          <6>1. j \in 1 .. Len(lines[w])
            BY <3>1, <3>3, <5>2
          <6> QED
            BY <3>3, <4>1, <6>1
        <5> QED
          BY <5>1, <5>2
      <4> QED
        BY <4>2, <4>3
    <3>5. rpc' = rpc /\ ~Complete(w)
      BY <1>3, <2>2 DEF PrintLine, Complete, Written
    <3>6. \A l \in Lcas : /\ Len(lines'[l]) <= Len(samples[l])
                          /\ \A j \in 1 .. Len(lines'[l]) :
                               lines'[l][j] = Shown(l, samples[l][j])
      BY <3>2, <3>4 DEF LinesInv
    <3>7. \A n \in 1 .. 8 : LcaOf(n) \in Lcas
      BY DEF LcaOf, Lcas
    <3>8. \A n \in 1 .. 8 : Complete(LcaOf(n)) => CountShown(n)'
      <4> TAKE n \in 1 .. 8
      <4> HAVE Complete(LcaOf(n))
      <4>1. lines'[LcaOf(n)] = lines[LcaOf(n)]
        BY <3>2, <3>5, <3>7
      <4> QED
        BY <1>1, <4>1 DEF LinesInv, CountShown
    <3> QED
      BY <1>1, <1>3, <3>5, <3>6, <3>8 DEF LinesInv, Complete
  <2>3. CASE EndFile
    <3> SUFFICES ASSUME ~garbled PROVE LinesInv'
      BY <2>3 DEF EndFile, LinesInv
    <3>1. UNCHANGED <<lines, samples, printed>> /\ rpc' = NextFile
      BY <2>3 DEF EndFile
    <3>2. Len(lines[Written]) >= Len(samples[Written])
      BY <2>3 DEF EndFile
    <3>3. \A n \in 1 .. 8 : LcaOf(n) = Written => CountShown(n)
      BY <1>3, <1>5, <3>2, CaughtUp
    <3>4. \A l \in Lcas : Complete(l)' <=> Complete(l) \/ l = Written
      BY <1>3, <3>1 DEF Complete, Written, NextFile, Lcas
    <3>5. \A n \in 1 .. 8 : LcaOf(n) \in Lcas
      BY DEF LcaOf, Lcas
    <3>6. \A n \in 1 .. 8 : Complete(LcaOf(n))' => CountShown(n)'
      BY <3>1, <3>3, <3>4, <3>5 DEF LinesInv, CountShown
    <3>7. rpc' = "exited" => Len(lines["xapian"]) + 1 >= Len(lines["memcached"])
      <4>1. \A l \in Lcas : /\ Len(lines[l]) \in Nat /\ Len(samples[l]) \in Nat
                            /\ Len(lines[l]) <= Len(samples[l])
        BY DEF TypeOK, LinesInv
      <4>2. Len(samples["memcached"]) <= Len(samples["xapian"]) + 1
        BY <4>1 DEF CountInv, One, Lcas
      <4>3. rpc' = "exited" => Written = "xapian"
        BY <1>3, <3>1 DEF Written, NextFile
      <4> QED
        BY <3>2, <4>1, <4>2, <4>3 DEF Lcas
    <3> QED
      BY <3>1, <3>6, <3>7 DEF LinesInv, Complete
  <2> QED
    BY <2>1, <2>2, <2>3
<1> QED
  BY <1>2, <1>4, <1>7, <1>8

-----------------------------------------------------------------------------
(* The theorems.                                                            *)

\* The invariant holds in every reachable state.
THEOREM Invariance == Spec => []IInv
<1>1. IInv /\ [Next]_vars => IInv'
  <2> SUFFICES ASSUME IInv, [Next]_vars PROVE IInv'
    OBVIOUS
  <2>1. CASE UNCHANGED vars
    <3>1. UNCHANGED <<at, poll, cpl, samples, counts, report>>
      BY <2>1 DEF vars
    <3>2. TypeOK'
      BY <3>1 DEF IInv, TypeOK, poll, counts, report
    <3>3. PollInv' /\ CountInv'
      BY <3>1, ReadOnly
    <3>4. PrintedInv' /\ LinesInv'
      BY <3>1 DEF IInv, PrintedInv, LinesInv, Complete, CountShown, CounterOf, counts,
         report
    <3> QED
      BY <3>2, <3>3, <3>4 DEF IInv
  <2> QED
    BY <2>1, PollIInv, RecordIInv, PrintIInv, FilesIInv DEF Next, Report
<1> QED
  BY <1>1, InitIInv, PTL DEF Spec

\* Every variable of the measurement thread and of the report keeps its type.
THEOREM TypeCorrect == Spec => []TypeOK
BY Invariance, PTL DEF IInv

\* Between two rounds the counters agree with the vectors.
THEOREM Exact == Spec => []CountsExact
<1>1. IInv => CountsExact
  <2> SUFFICES ASSUME IInv, at = RoundStart
               PROVE  /\ \A l \in Lcas : /\ v_f[l] = AtMost(samples[l], SlackUp)
                                        /\ v_t[l] = AtMost(samples[l], -1)
                      /\ Len(samples["memcached"]) = Len(samples["xapian"])
    BY DEF CountsExact
  <2>1. \A l \in Lcas : ~PendingF(l) /\ ~PendingT(l)
    BY DEF PendingF, PendingT, Pushing, RoundStart, At
  <2>2. ~Pushing("xapian")
    BY DEF Pushing, RoundStart, At
  <2>3. \A l \in Lcas : v_f[l] \in Nat /\ v_t[l] \in Nat /\ Len(samples[l]) \in Nat
    BY DEF IInv, TypeOK
  <2> QED
    BY <2>1, <2>2, <2>3 DEF IInv, CountInv, One, Lcas
<1> QED
  BY <1>1, Invariance, PTL

\* The files show every violation the report counts.
THEOREM Backed == Spec => []LinesBackCounts
<1>1. IInv => LinesBackCounts
  BY DEF IInv, LinesInv, LinesBackCounts, Complete, LcaOf
<1> QED
  BY <1>1, Invariance, PTL

\* The file of xapian lags by a round at most.
THEOREM Aligned == Spec => []FilesAlign
<1>1. IInv => FilesAlign
  BY DEF IInv, LinesInv, FilesAlign
<1> QED
  BY <1>1, Invariance, PTL

\* A reply in one piece is the result of its poll.
THEOREM Kept == Spec => WholeReplyKept
<1>1. ASSUME IInv, [Next]_vars, conn = "open", conn' = "closed"
      PROVE  /\ got = "whole"   => cpl'[at.lca] = reply
             /\ got = "nothing" => cpl'[at.lca] = NoReply
  <2>1. Close
    BY <1>1 DEF Next, Poll, Refused, Connect, WholeReply, PartOfReply, Polling,
       Record, Push, Grown, CountF, CountT, Report, Signal, print_logs_v2, PrintLine,
       PrintGarbled, EndFile, vars, poll
  <2>2. cpl'[at.lca] = service_time
    BY <1>1, <2>1 DEF Close, Return, IInv, TypeOK
  <2> QED
    BY <1>1, <2>2 DEF IInv, PollInv
<1> QED
  BY <1>1, Invariance, PTL DEF Spec, WholeReplyKept

-----------------------------------------------------------------------------
(* What the control loops see.                                              *)

\* The last element of a vector after a push.
LEMMA BackAppend ==
  ASSUME NEW s \in Seq(Slacks), NEW x \in Slacks
  PROVE  Back(Append(s, x)) = x
BY DEF Back

\* A push that completes appends one sample on the turn of its LCA.
LEMMA PushedSeen ==
  ASSUME IInv, NEW l \in Lcas,
         at \in {At("push", l), At("grow", l)}, at' = After(l), Pushed(l)
  PROVE  Seen!Appended
<1> DEFINE turn   == IF Pushes THEN at.lca ELSE "memcached"
           turn1  == IF Pushes' THEN at'.lca ELSE "memcached"
           latest == [k \in Lcas |-> Back(samples[k])]
           latest1 == [k \in Lcas |-> Back(samples'[k])]
<1>1. samples[l] \in Seq(Slacks) /\ cpl[l] \in Slacks
  BY DEF IInv, TypeOK
<1>2. turn = l
  BY DEF Pushes, At
<1>3. turn1 \in Lcas \ {l}
  BY DEF Pushes, After, At, Lcas
<1>4. /\ samples'[l] = Append(samples[l], cpl[l])
      /\ \A k \in Lcas : k # l => samples'[k] = samples[k]
  BY DEF Pushed, IInv, TypeOK
<1>5. latest1 = [latest EXCEPT ![l] = cpl[l]]
  <2>1. Back(samples'[l]) = cpl[l]
    BY <1>1, <1>4, BackAppend
  <2> QED
    BY <1>4, <2>1
<1>6. latest1 \in {[latest EXCEPT ![turn] = s] : s \in Slacks}
  BY <1>1, <1>2, <1>5
<1> QED
  BY <1>2, <1>3, <1>6 DEF Seen!Appended

\* A step of the poll, of a round, or of the report.
LEMMA StepSeen == IInv /\ Next => [Seen!Next]_Seen!vars
<1> SUFFICES ASSUME IInv, Next PROVE [Seen!Next]_Seen!vars
  OBVIOUS
<1>1. CASE Poll
  <2>1. at.phase = "poll" /\ samples' = samples
    BY <1>1 DEF Poll, Refused, Connect, WholeReply, PartOfReply, Close, Polling
  <2>2. at'.phase = "poll" \/ at' = At("push", "memcached")
    BY <1>1, <2>1 DEF Poll, Refused, Connect, WholeReply, PartOfReply, Close, Return, At
  <2>3. UNCHANGED Seen!vars
    BY <2>1, <2>2 DEF Seen!vars, Pushes, At
  <2> QED
    BY <2>3
<1>2. ASSUME NEW l \in Lcas, Push(l) PROVE [Seen!Next]_Seen!vars
  <2>1. CASE at' = After(l) /\ Pushed(l)
    <3>1. Seen!Appended
      BY <1>2, <2>1, PushedSeen DEF Push
    <3>2. at.phase # "grow" /\ at'.phase # "grow"
      BY <1>2, <2>1 DEF Push, After, At
    <3> QED
      BY <3>1, <3>2 DEF Seen!Next, Seen!Append
  <2>2. CASE at' = At("grow", l) /\ UNCHANGED samples
    BY <1>2, <2>2 DEF Push, At, Pushes, Seen!Next, Seen!Move
  <2> QED
    BY <1>2, <2>1, <2>2 DEF Push
<1>3. ASSUME NEW l \in Lcas, Grown(l) PROVE [Seen!Next]_Seen!vars
  <2>1. Seen!Appended
    BY <1>3, PushedSeen DEF Grown
  <2>2. at.phase = "grow" /\ at'.phase # "grow"
    BY <1>3 DEF Grown, After, At
  <2> QED
    BY <2>1, <2>2 DEF Seen!Next, Seen!Settle
<1>4. ASSUME NEW l \in Lcas, CountF(l) \/ CountT(l) PROVE UNCHANGED Seen!vars
  <2>1. samples' = samples
    BY <1>4 DEF CountF, CountT
  <2>2. ~Pushes /\ ~Pushes' /\ at.phase # "grow" /\ at'.phase # "grow"
    BY <1>4 DEF CountF, CountT, Pushes, At, RoundStart
  <2> QED
    BY <2>1, <2>2 DEF Seen!vars
<1>5. CASE Report
  <2>1. at' = at /\ samples' = samples
    BY <1>5 DEF Report, Signal, print_logs_v2, PrintLine, PrintGarbled, EndFile
  <2> QED
    BY <2>1 DEF Seen!vars, Pushes
<1> QED
  BY <1>1, <1>2, <1>3, <1>4, <1>5 DEF Next, Record

\* The measurement thread, piece by piece, does what the control loops take for
\* granted: samples in turn, and a vector out of reach only on its turn.
THEOREM CollectorRefinement == Spec => CollectorSpec
<1>1. Init => Seen!Init
  BY DEF Init, Seen!Init, Back, Pushes, RoundStart, At
<1>2. UNCHANGED vars => UNCHANGED Seen!vars
  BY DEF vars, Seen!vars, Pushes
<1>3. IInv /\ [Next]_vars => [Seen!Next]_Seen!vars
  BY <1>2, StepSeen
<1> QED
  BY <1>1, <1>3, Invariance, PTL DEF Spec, CollectorSpec, Seen!Spec
=============================================================================
