----------------------------- MODULE LatencyPoll -----------------------------
(****************************************************************************)
(* The measurement thread of the controller piece by piece (Utilities.cpp,  *)
(* get_percentile_latency[_xpn], measurement_collector), and the report of  *)
(* a handler that ends the program beside it (print_logs_v2,                *)
(* print_to_file): the counters are printed first, twice, then the two      *)
(* sample vectors, while the thread still pushes.                           *)
(*                                                                          *)
(* A latency is represented by the slack it leaves, in percent of the       *)
(* target.  The targets are taken to be 50, so that a percent is half a     *)
(* unit: a latency of odd slack has a fraction.                             *)
(*                                                                          *)
(* Nothing in the program orders the accesses of the two threads; they are  *)
(* modelled as atomic reads and writes in program order, and a read of a    *)
(* vector that is being reallocated as a read of anything.                  *)
(****************************************************************************)
EXTENDS Integers, FiniteSets, Sequences

CONSTANTS
    Slacks,       \* the slacks a reply can stand for
    MaxSamples    \* bound on the samples of an LCA

ASSUME SlackAssumption  == Slacks \subseteq Int /\ 100 \in Slacks
ASSUME BoundsAssumption == MaxSamples \in Nat

Lcas    == {"memcached", "xapian"}
SlackUp == 5      \* slack_up

NoReply == 100    \* latency 0 leaves the whole target

VARIABLES
    at,        \* where the measurement thread is: a phase, and for which LCA
    conn,      \* the socket: "closed" or "open"
    got,       \* what it delivered: "nothing", the "whole" reply, or "parts"
    reply,     \* what the server sent
    service_time,  \* what the poll has parsed last
    cpl,       \* the results of the polls of this round
    samples,   \* percentile_samples and percentile_samples_xpn
    v_f,       \* how many left at most slack_up
    v_t,       \* how many missed the target
    reporter,  \* the thread the handler runs on, or "none"
    rpc,       \* what the report is doing
    printed,   \* the counters printed, in order
    lines,     \* the latencies in the file of each LCA, as slacks
    garbled    \* was a vector read while it was being reallocated?

poll    == <<conn, got, reply, service_time>>
counts  == <<v_f, v_t>>
report  == <<reporter, rpc, printed, lines, garbled>>
vars == <<at, poll, cpl, samples, counts, report>>

\* A round of the measurement thread.
Phases == {"poll", "push", "grow", "count_f", "count_t"}
At(phase, l) == [phase |-> phase, lca |-> l]
RoundStart   == At("poll", "memcached")

Init == /\ at = RoundStart
        /\ conn = "closed"
        /\ got = "nothing"
        /\ reply = NoReply
        /\ service_time = NoReply
        /\ cpl = [l \in Lcas |-> NoReply]
        /\ samples = [l \in Lcas |-> <<>>]
        /\ v_f = [l \in Lcas |-> 0]
        /\ v_t = [l \in Lcas |-> 0]
        /\ reporter = "none"
        /\ rpc = "none"
        /\ printed = <<>>
        /\ lines = [l \in Lcas |-> <<>>]
        /\ garbled = FALSE

-----------------------------------------------------------------------------
(* The poll of one LCA.                                                     *)

\* A handler that runs on the measurement thread holds it up for good.
Collecting == reporter # "collector" /\ rpc \notin {"exited", "faulted"}

Polling(c) == Collecting /\ at.phase = "poll" /\ conn = c

\* The bound on the samples.
Room == \A l \in Lcas : Len(samples[l]) < MaxSamples

\* The result of the poll ends the turn of an LCA; its locals are gone.
Return(s) == /\ cpl' = [cpl EXCEPT ![at.lca] = s]
             /\ at' = IF at.lca = "memcached" THEN At("poll", "xapian")
                                              ELSE At("push", "memcached")
             /\ conn' = "closed"
             /\ got' = "nothing"
             /\ reply' = NoReply
             /\ service_time' = NoReply

\* The error of connect is overwritten by that of the first read.
Refused == /\ Polling("closed")
           /\ Room
           /\ Return(NoReply)
           /\ UNCHANGED <<samples, counts, report>>

Connect == /\ Polling("closed")
           /\ Room
           /\ conn' = "open"
           /\ got' = "nothing"
           /\ reply' \in Slacks
           /\ service_time' = NoReply
           /\ UNCHANGED <<at, cpl, samples, counts, report>>

WholeReply == /\ Polling("open")
              /\ got = "nothing"
              /\ got' = "whole"
              /\ service_time' = reply
              /\ UNCHANGED <<at, conn, reply, cpl, samples, counts, report>>

\* Each piece of a reply is a number of its own.
PartOfReply == /\ Polling("open")
               /\ got # "whole"
               /\ got' = "parts"
               /\ service_time' \in Slacks
               /\ UNCHANGED <<at, conn, reply, cpl, samples, counts, report>>

\* (mutant: what a failed poll has read is forgotten)
CloseForgets == /\ Polling("open")
                /\ \/ Return(service_time)
                   \/ Return(NoReply)
                /\ UNCHANGED <<samples, counts, report>>

\* (mutant: a poll that delivered nothing returns the latency -1)
CloseMinusOne == /\ Polling("open")
                 /\ Return(IF got = "nothing" THEN NoReply + 2 ELSE service_time)
                 /\ UNCHANGED <<samples, counts, report>>

\* The server closes, the connection breaks, or a piece is no number: in each
\* case the poll returns what it has parsed last.
Close == /\ Polling("open")
         /\ Return(service_time)
         /\ UNCHANGED <<samples, counts, report>>

-----------------------------------------------------------------------------
(* The two push_backs and the four counters.                                *)

After(l) == IF l = "memcached" THEN At("push", "xapian")
                               ELSE At("count_f", "memcached")

\* (mutant: both samples go to the vector of memcached)
PushedToOne(l) == samples' = [samples EXCEPT !["memcached"] = Append(@, cpl[l])]

Pushed(l) == samples' = [samples EXCEPT ![l] = Append(@, cpl[l])]

\* A vector that is full is reallocated first.  Capacities are not modelled: any
\* push may meet a full vector.
Push(l) == /\ Collecting
           /\ at = At("push", l)
           /\ \/ at' = At("grow", l) /\ UNCHANGED samples
              \/ at' = After(l) /\ Pushed(l)
           /\ UNCHANGED <<poll, cpl, counts, report>>

\* The reallocation ends with the new element in place.
Grown(l) == /\ Collecting
            /\ at = At("grow", l)
            /\ Pushed(l)
            /\ at' = After(l)
            /\ UNCHANGED <<poll, cpl, counts, report>>

\* (mutant: only what the control loops call danger)
CountDanger(l) ==
    /\ Collecting
    /\ at = At("count_f", l)
    /\ v_f' = [v_f EXCEPT ![l] = IF cpl[l] < SlackUp THEN @ + 1 ELSE @]
    /\ at' = At("count_t", l)
    /\ UNCHANGED <<poll, cpl, samples, v_t, report>>

CountF(l) == /\ Collecting
             /\ at = At("count_f", l)
             /\ v_f' = [v_f EXCEPT ![l] = IF cpl[l] <= SlackUp THEN @ + 1 ELSE @]
             /\ at' = At("count_t", l)
             /\ UNCHANGED <<poll, cpl, samples, v_t, report>>

CountT(l) == /\ Collecting
             /\ at = At("count_t", l)
             /\ v_t' = [v_t EXCEPT ![l] = IF cpl[l] < 0 THEN @ + 1 ELSE @]
             /\ at' = IF l = "memcached" THEN At("count_f", "xapian")
                                         ELSE RoundStart
             /\ UNCHANGED <<poll, cpl, samples, v_f, report>>

-----------------------------------------------------------------------------
(* The report.                                                              *)

\* The handler runs on the thread the signal is delivered to.
Signal == /\ rpc = "none"
          /\ reporter' \in {"main", "collector"}
          /\ rpc' = "counters"
          /\ UNCHANGED <<at, poll, cpl, samples, counts, printed, lines, garbled>>

\* Memcached's two and xapian's two, to stdout and again to the results file:
\* whose counter the n-th is, and which.
LcaOf(n)     == IF (n - 1) % 4 \in {0, 1} THEN "memcached" ELSE "xapian"
CounterOf(n) == IF n % 2 = 1 THEN v_f[LcaOf(n)] ELSE v_t[LcaOf(n)]

print_logs_v2 ==
    /\ rpc = "counters"
    /\ printed' = Append(printed, CounterOf(Len(printed) + 1))
    /\ rpc' = IF Len(printed) = 7 THEN "file" ELSE rpc
    /\ UNCHANGED <<at, poll, cpl, samples, counts, reporter, lines, garbled>>

\* The file that is being written, and what comes after it.
Written == IF rpc = "file" THEN "memcached" ELSE "xapian"
NextFile == IF rpc = "file" THEN "file_xpn" ELSE "exited"

\* The file of memcached has the latency as an int, whose fraction is cut off: the
\* slack shown is the next even one.  That of xapian has both its decimals.
Shown(l, s) == IF l = "memcached" THEN s + (s % 2) ELSE s

Line(l, s) == lines' = [lines EXCEPT ![l] = Append(@, Shown(l, s))]

PrintLine ==
    /\ rpc \in {"file", "file_xpn"}
    /\ LET l == Written
       IN  /\ at # At("grow", l)
           /\ Len(lines[l]) < Len(samples[l])
           /\ Line(l, samples[l][Len(lines[l]) + 1])
    /\ UNCHANGED <<at, poll, cpl, samples, counts, reporter, rpc, printed, garbled>>

\* While the vector is being reallocated a line may hold anything, the loop may
\* end early, and the program may fault.
PrintGarbled ==
    /\ rpc \in {"file", "file_xpn"}
    /\ at = At("grow", Written)
    /\ garbled' = TRUE
    /\ \/ /\ Len(lines[Written]) < MaxSamples
          /\ \E s \in Slacks : Line(Written, s)
          /\ UNCHANGED rpc
       \/ rpc' \in {NextFile, "faulted"} /\ UNCHANGED lines
    /\ UNCHANGED <<at, poll, cpl, samples, counts, reporter, printed>>

\* (mutant: the last line is left out)
EndShort == /\ rpc \in {"file", "file_xpn"}
            /\ at # At("grow", Written)
            /\ Len(lines[Written]) + 1 >= Len(samples[Written])
            /\ rpc' = NextFile
            /\ UNCHANGED <<at, poll, cpl, samples, counts, reporter, printed, lines,
                           garbled>>

\* The size is read again for each line.
EndFile == /\ rpc \in {"file", "file_xpn"}
           /\ at # At("grow", Written)
           /\ Len(lines[Written]) >= Len(samples[Written])
           /\ rpc' = NextFile
           /\ UNCHANGED <<at, poll, cpl, samples, counts, reporter, printed, lines,
                          garbled>>
-----------------------------------------------------------------------------

Poll    == Refused \/ Connect \/ WholeReply \/ PartOfReply \/ Close
Record  == \E l \in Lcas : Push(l) \/ Grown(l) \/ CountF(l) \/ CountT(l)
Report  == Signal \/ print_logs_v2 \/ PrintLine \/ PrintGarbled \/ EndFile

Next == Poll \/ Record \/ Report

Spec == Init /\ [][Next]_vars

-----------------------------------------------------------------------------
(* What the samples and the report are worth.                               *)

\* How many slacks of a sequence are at most b.
AtMost(s, b) == Cardinality({j \in 1 .. Len(s) : s[j] <= b})

\* The slack below which a sample counts for the n-th counter of a report.
BoundOf(n) == IF n % 2 = 1 THEN SlackUp ELSE -1

\* The type of every variable.
TypeOK == /\ at \in [phase : Phases, lca : Lcas]
          /\ conn \in {"closed", "open"}
          /\ got \in {"nothing", "whole", "parts"}
          /\ reply \in Slacks
          /\ service_time \in Slacks
          /\ cpl \in [Lcas -> Slacks]
          /\ samples \in [Lcas -> Seq(Slacks)]
          /\ v_f \in [Lcas -> Nat]
          /\ v_t \in [Lcas -> Nat]
          /\ reporter \in {"none", "main", "collector"}
          /\ rpc \in {"none", "counters", "file", "file_xpn", "exited", "faulted"}
          /\ printed \in Seq(Nat)
          /\ lines \in [Lcas -> Seq(Int)]
          /\ garbled \in BOOLEAN

\* Between two rounds the counters agree with the vectors, for every sequence of
\* refused, partial and complete replies, and both LCAs have the same number of
\* samples (Utilities.cpp, measurement_collector).
CountsExact ==
    at = RoundStart =>
        /\ \A l \in Lcas : /\ v_f[l] = AtMost(samples[l], SlackUp)
                          /\ v_t[l] = AtMost(samples[l], -1)
        /\ Len(samples["memcached"]) = Len(samples["xapian"])

\* Every violation a report counts has a line in the latency files that shows the
\* latency of the threshold or a longer one, as the file shows it (memcached's to
\* the unit: a latency of half a unit over the target is a violation whose line is
\* the target itself), whichever thread the report runs on and however far the
\* measurement thread gets beside it, unless a vector was read while it moved
\* (Utilities.cpp, print_logs_v2, print_to_file).
CountShown(n) == printed[n] <= AtMost(lines[LcaOf(n)], Shown(LcaOf(n), BoundOf(n)))
LinesBackCounts == rpc = "exited" /\ ~garbled => \A n \in 1 .. 8 : CountShown(n)

\* The file of xapian, written last, has every round of the file of memcached
\* but perhaps the last (Utilities.cpp, measurement_collector, print_to_file).
FilesAlign ==
    rpc = "exited" /\ ~garbled =>
        Len(lines["xapian"]) + 1 >= Len(lines["memcached"])

\* A reply that came in one piece is the result of the poll, however the
\* connection ends after it; only a poll that delivered nothing counts as
\* latency 0 (Utilities.cpp, get_percentile_latency).
WholeReplyKept ==
    [][conn = "open" /\ conn' = "closed" =>
         /\ got = "whole"   => cpl'[at.lca] = reply
         /\ got = "nothing" => cpl'[at.lca] = NoReply]_vars

\* back() of a vector as the control loops read it: an empty one reads as
\* latency 0.
Back(s) == IF s = <<>> THEN NoReply ELSE s[Len(s)]

\* The measurement thread as the control loops see it.
Pushes == at.phase \in {"push", "grow"}
Seen == INSTANCE Collector
            WITH First <- "memcached",
                 latest <- [l \in Lcas |-> Back(samples[l])],
                 turn <- (IF Pushes THEN at.lca ELSE "memcached"),
                 moving <- (at.phase = "grow")

\* Whatever the polls, the counters and the report do, the control loops see
\* samples arrive for one LCA after the other, memcached first, and a vector
\* out of reach only on its turn: what Controller takes for granted
\* (Utilities.cpp, measurement_collector, get_latest_percentile_latency).
CollectorSpec == Seen!Spec

-----------------------------------------------------------------------------
(* The inductive invariant behind the safety properties.                    *)

\* What the socket has delivered is what the poll will return.
PollInv == /\ conn = "open" => at.phase = "poll"
           /\ got = "whole" => service_time = reply
           /\ got = "nothing" => service_time = NoReply

\* Has l a sample that is not counted yet?
Pushing(l)  == at.phase \in {"push", "grow"} /\ at.lca = l
PendingF(l) == \/ at = At("count_f", "memcached")
               \/ l = "memcached" /\ Pushing("xapian")
               \/ l = "xapian" /\ at \in {At("count_t", "memcached"),
                                         At("count_f", "xapian")}
PendingT(l) == \/ at \in {At("count_f", "memcached"), At("count_t", "memcached")}
               \/ l = "memcached" /\ Pushing("xapian")
               \/ l = "xapian" /\ at.phase \in {"count_f", "count_t"}

One(b) == IF b THEN 1 ELSE 0

CountInv ==
    /\ \A l \in Lcas :
          /\ v_f[l] + One(PendingF(l) /\ cpl[l] <= SlackUp)
               = AtMost(samples[l], SlackUp)
          /\ v_t[l] + One(PendingT(l) /\ cpl[l] <= -1) = AtMost(samples[l], -1)
    /\ Len(samples["memcached"]) = Len(samples["xapian"]) + One(Pushing("xapian"))

\* A printed counter lags behind the counter, a file behind its vector; a file
\* that is complete has caught up with what was printed.
Complete(l) == \/ l = "memcached" /\ rpc \in {"file_xpn", "exited"}
               \/ l = "xapian" /\ rpc = "exited"

PrintedInv ==
    /\ Len(printed) <= 8
    /\ rpc \in {"none", "counters"} => Len(printed) <= 7
    /\ rpc \in {"file", "file_xpn", "exited"} => Len(printed) = 8
    /\ \A n \in 1 .. Len(printed) : printed[n] <= CounterOf(n)

LinesInv ==
    ~garbled =>
        /\ \A l \in Lcas :
              /\ Len(lines[l]) <= Len(samples[l])
              /\ \A j \in 1 .. Len(lines[l]) : lines[l][j] = Shown(l, samples[l][j])
        /\ \A n \in 1 .. 8 : Complete(LcaOf(n)) => CountShown(n)
        /\ rpc = "exited" =>
              Len(lines["xapian"]) + 1 >= Len(lines["memcached"])

IInv == TypeOK /\ PollInv /\ CountInv /\ PrintedInv /\ LinesInv
=============================================================================
