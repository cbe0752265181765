------------------------- MODULE BinanceRuntimeProofs -------------------------
(***************************************************************************)
(* Proofs about BinanceRuntime: for any orders, quantities, capacities and *)
(* limits, and any faults of the venue, the runtime keeps its contract     *)
(* with the hub; it leaves no order open that it does not know of, unless  *)
(* one of the named mishaps came first; and the poller tells no execution  *)
(* twice.                                                                  *)
(***************************************************************************)
EXTENDS BinanceRuntime, SequenceTheorems, TLAPS

(***************************************************************************)
(* The strengthening.  Counters, flags and control states first.           *)
(***************************************************************************)
Controls ==
  /\ main \in {"select", "report", "drain", "borrow", "close", "closing", "post", "panicked"}
  /\ poller \in {"sleep", "ask", "answer", "send", "panicked"}
  /\ attempts \in 0..MAX_CONNECTION_FAILURES
  /\ failures \in 0..(MAX_CONNECTION_FAILURES - 1)
  /\ last_reported_fill_key \in Nat /\ batches \in Nat /\ faults \in Nat
  /\ hubKey \in 0..last_reported_fill_key
  /\ hub_rx \in [key : 0..last_reported_fill_key, names : SUBSET OrderNames]
  /\ poisoned \in BOOLEAN /\ unseen \in BOOLEAN
  /\ target \subseteq placed /\ placed \subseteq OrderNames
  /\ mishaps \subseteq Mishaps
  /\ poisoned => "misplaced" \in mishaps

\* The lists hold orders the venue knows, under names that were accepted.
Entries == [id : Ids, name : placed, filled : 0..Qty]
Fills == [id : Ids, name : placed, executed : 0..Qty, status : Statuses]

Lists ==
  /\ venue \in Seq(VenueOrders) /\ heard \in Seq(0..Qty) /\ Len(heard) = Len(venue)
  /\ deployed \in Seq(Entries) /\ toClose \in Seq(Entries)
  /\ just_deployed \in Seq(Entries) /\ orders \in Seq(Entries)
  /\ temp \in Seq(Fills) /\ Len(temp) <= TempCap
  /\ fills_rx \in Seq(Reports) /\ Len(fills_rx) <= HubCap
  /\ inHand \in Fills \union {NoFill} /\ answer \in Fills \union {NoFill}
  /\ main = "report" => inHand \in Fills
  /\ i \in Nat \ {0} /\ (orders # <<>> => i <= Len(orders))
  /\ poller = "sleep" => i = 1
  /\ poller \in {"ask", "answer", "send"} => orders # <<>>
  /\ poller \in {"answer", "send"} => answer \in Fills /\ answer.id = orders[i].id

\* A name is in each list once; entries and fills bear the names of their orders.
Distinct(s) == \A m, n \in DOMAIN s : s[m].name = s[n].name => m = n
Named(s) == \A n \in DOMAIN s : s[n].name = venue[s[n].id].name

Names ==
  /\ Named(deployed) /\ Named(just_deployed) /\ Named(orders) /\ Named(temp)
  /\ poller \in {"answer", "send"} => answer.name = venue[answer.id].name
  /\ Distinct(deployed) /\ Distinct(just_deployed) /\ Distinct(orders)
  /\ main = "post" => \A n \in DOMAIN just_deployed : just_deployed[n].name \notin target
-----------------------------------------------------------------------------
(***************************************************************************)
(* The lists' operators.                                                   *)
(***************************************************************************)
\* An order's place in the list of entries lacking one name: before the entry
\* that goes an entry keeps its place, after it it moves up by one.
LEMMA WithoutNameIs ==
  ASSUME NEW S, deployed \in Seq(S), NEW f, NEW at \in DOMAIN deployed,
         Distinct(deployed), deployed[at].name = f.name
  PROVE  /\ WithoutName(f) \in Seq(S)
         /\ DOMAIN WithoutName(f) = 1..(Len(deployed) - 1)
         /\ \A n \in 1..(Len(deployed) - 1) :
              WithoutName(f)[n] = deployed[IF n < at THEN n ELSE n + 1]
<1> DEFINE L == Len(deployed)
           before == SubSeq(deployed, 1, at - 1)
           after == SubSeq(deployed, at + 1, L)
<1>1. L \in Nat /\ DOMAIN deployed = 1..L /\ \A n \in 1..L : deployed[n] \in S
  BY LenProperties, ElementOfSeq
<1>2. at \in 1..L
  BY <1>1
<1>3. (CHOOSE n \in DOMAIN deployed : deployed[n].name = f.name) = at
  BY DEF Distinct
<1>4. WithoutName(f) = before \o after
  BY <1>3 DEF WithoutName
<1> HIDE DEF L
<1>5. /\ before \in Seq(S) /\ Len(before) = at - 1
      /\ \A n \in 1..(at - 1) : before[n] = deployed[n]
  <2>1. /\ 1 \in Int /\ at - 1 \in Int
        /\ \A n \in 1..(at - 1) : deployed[n] \in S
    BY <1>1, <1>2
  <2>2. /\ before \in Seq(S)
        /\ Len(before) = IF 1 <= at - 1 THEN (at - 1) - 1 + 1 ELSE 0
        /\ \A n \in 1..((at - 1) - 1 + 1) : before[n] = deployed[1 + n - 1]
    BY <2>1, SubSeqProperties
  <2> QED  BY <1>2, <2>2
<1>6. /\ after \in Seq(S) /\ Len(after) = L - at
      /\ \A n \in 1..(L - at) : after[n] = deployed[at + n]
  <2> DEFINE b == at + 1
  <2>0. b \in Int /\ b = at + 1
    BY <1>1, <1>2
  <2> HIDE DEF b
  <2>1. L \in Int /\ \A n \in b..L : deployed[n] \in S
    BY <1>1, <1>2, <2>0
  <2>2. after = SubSeq(deployed, b, L)
    BY <2>0 DEF after
  <2>3. /\ after \in Seq(S)
        /\ Len(after) = IF b <= L THEN L - b + 1 ELSE 0
        /\ \A n \in 1..(L - b + 1) : after[n] = deployed[b + n - 1]
    BY <2>0, <2>1, <2>2, SubSeqProperties
  <2>4. Len(after) = L - at
    BY <1>1, <1>2, <2>0, <2>3
  <2>5. ASSUME NEW n \in 1..(L - at)  PROVE after[n] = deployed[at + n]
    <3>1. n \in 1..(L - b + 1) /\ b + n - 1 = at + n
      BY <1>1, <1>2, <2>0
    <3> QED  BY <2>3, <3>1
  <2> QED  BY <2>3, <2>4, <2>5
<1> DEFINE r == before \o after
<1>7. /\ r \in Seq(S) /\ Len(r) = L - 1
      /\ \A n \in 1..(L - 1) : r[n] = IF n <= at - 1 THEN before[n] ELSE after[n - (at - 1)]
  <2> HIDE DEF before, after
  <2>1. /\ r \in Seq(S) /\ Len(r) = Len(before) + Len(after)
        /\ \A n \in 1..(Len(before) + Len(after)) :
             r[n] = IF n <= Len(before) THEN before[n] ELSE after[n - Len(before)]
    BY <1>5, <1>6, ConcatProperties
  <2>2. Len(before) = at - 1 /\ Len(before) + Len(after) = L - 1
    BY <1>1, <1>2, <1>5, <1>6
  <2> HIDE DEF r
  <2> QED  BY <2>1, <2>2
<1> HIDE DEF before, after, r
<1>8. DOMAIN r = 1..(L - 1)
  BY <1>7, LenProperties
<1>9. ASSUME NEW n \in 1..(L - 1)
      PROVE  r[n] = deployed[IF n < at THEN n ELSE n + 1]
  <2>1. CASE n < at
    BY <1>1, <1>2, <1>5, <1>7, <2>1
  <2>2. CASE ~(n < at)
    <3> DEFINE k == n - (at - 1)
    <3>1. k \in 1..(L - at) /\ at + k = n + 1 /\ ~(n <= at - 1)
      BY <1>1, <1>2, <2>2
    <3>2. r[n] = after[k]
      BY <1>7, <3>1
    <3> HIDE DEF k
    <3>3. after[k] = deployed[at + k]
      BY <1>6, <3>1
    <3> QED  BY <2>2, <3>1, <3>2, <3>3
  <2> QED  BY <2>1, <2>2
<1> QED  BY <1>4, <1>7, <1>8, <1>9 DEF L, r

\* What remains of the deployed orders was deployed, each name once, and all
\* that is not of the filled name remains.
LEMMA RemainingIs ==
  ASSUME NEW S, deployed \in Seq(S), NEW f, Distinct(deployed)
  PROVE  /\ Remaining(f) \in Seq(S)
         /\ \A n \in DOMAIN Remaining(f) : \E m \in DOMAIN deployed : Remaining(f)[n] = deployed[m]
         /\ Distinct(Remaining(f))
         /\ \A m \in DOMAIN deployed :
              f.status # "FILLED" \/ deployed[m].name # f.name
                => \E n \in DOMAIN Remaining(f) : Remaining(f)[n] = deployed[m]
<1>1. CASE f.status = "FILLED" /\ \E n \in DOMAIN deployed : deployed[n].name = f.name
  <2>1. PICK at \in DOMAIN deployed : deployed[at].name = f.name
    BY <1>1
  <2> DEFINE L == Len(deployed)
             r == WithoutName(f)
  <2>2. L \in Nat /\ DOMAIN deployed = 1..L
    BY LenProperties
  <2>3. /\ r \in Seq(S) /\ DOMAIN r = 1..(L - 1)
        /\ \A n \in 1..(L - 1) : r[n] = deployed[IF n < at THEN n ELSE n + 1]
    BY <2>1, WithoutNameIs
  <2>4. Remaining(f) = r
    BY <1>1 DEF Remaining
  <2> HIDE DEF L, r
  <2>5. ASSUME NEW n \in DOMAIN r  PROVE \E m \in DOMAIN deployed : r[n] = deployed[m]
    <3>1. n \in 1..(L - 1) /\ r[n] = deployed[IF n < at THEN n ELSE n + 1]
      BY <2>3
    <3>2. (IF n < at THEN n ELSE n + 1) \in DOMAIN deployed
      BY <2>1, <2>2, <3>1
    <3> QED  BY <3>1, <3>2
  <2>6. Distinct(r)
    <3> SUFFICES ASSUME NEW m \in 1..(L - 1), NEW n \in 1..(L - 1), r[m].name = r[n].name  PROVE m = n
      BY <2>3 DEF Distinct
    <3> DEFINE a == IF m < at THEN m ELSE m + 1
               b == IF n < at THEN n ELSE n + 1
    <3>1. a \in DOMAIN deployed /\ b \in DOMAIN deployed /\ deployed[a].name = deployed[b].name
      BY <2>1, <2>2, <2>3
    <3>2. a = b
      BY <3>1 DEF Distinct
    <3> QED  BY <2>1, <2>2, <3>2
  <2>7. ASSUME NEW m \in DOMAIN deployed, deployed[m].name # f.name
        PROVE  \E n \in DOMAIN r : r[n] = deployed[m]
    <3>1. m # at
      BY <2>1, <2>7
    <3>2. CASE m < at
      BY <2>1, <2>2, <2>3, <3>2
    <3>3. CASE m > at
      <4>1. m - 1 \in 1..(L - 1) /\ ~(m - 1 < at) /\ (m - 1) + 1 = m
        BY <2>1, <2>2, <3>3
      <4> QED  BY <2>3, <4>1
    <3> QED  BY <2>1, <2>2, <3>1, <3>2, <3>3
  <2> QED  BY <1>1, <2>3, <2>4, <2>5, <2>6, <2>7
<1>2. CASE ~(f.status = "FILLED" /\ \E n \in DOMAIN deployed : deployed[n].name = f.name)
  <2>1. Remaining(f) = deployed
    BY <1>2 DEF Remaining, WithoutName
  <2> QED  BY <2>1
<1> QED  BY <1>1, <1>2

\* A shuffled copy has the same entries, each at a place of its own.
LEMMA ShuffledIs ==
  ASSUME NEW S, NEW s \in Seq(S), NEW q \in Shuffles(s)
  PROVE  /\ q \in Seq(S) /\ Len(q) = Len(s) /\ DOMAIN q = DOMAIN s
         /\ \A n \in DOMAIN q : \E m \in DOMAIN s : q[n] = s[m]
         /\ Distinct(s) => Distinct(q)
<1>1. PICK f \in Bijection(DOMAIN s, DOMAIN s) : q = [n \in DOMAIN s |-> s[f[n]]]
  BY DEF Shuffles
<1>2. /\ Len(s) \in Nat /\ DOMAIN s = 1..Len(s) /\ \A n \in 1..Len(s) : s[n] \in S
  BY LenProperties, ElementOfSeq
<1>3. /\ \A n \in DOMAIN s : f[n] \in DOMAIN s
      /\ \A m, n \in DOMAIN s : f[m] = f[n] => m = n
  BY DEF Bijection, Injection, IsInjective
<1>4. q \in [1..Len(s) -> S]
  BY <1>1, <1>2, <1>3
<1>5. q \in Seq(S)
  BY <1>2, <1>4, SeqDef
<1>6. Len(q) = Len(s) /\ DOMAIN q = DOMAIN s
  BY <1>2, <1>4, <1>5, LenProperties
<1>7. \A n \in DOMAIN q : \E m \in DOMAIN s : q[n] = s[m]
  BY <1>1, <1>3, <1>6
<1>8. Distinct(s) => Distinct(q)
  BY <1>1, <1>3, <1>6 DEF Distinct
<1> QED  BY <1>5, <1>6, <1>7, <1>8
-----------------------------------------------------------------------------
(***************************************************************************)
(* Shapes.                                                                 *)
(***************************************************************************)
USE BinanceAssumption

\* What the lists hold, one by one.
LEMMA Elements ==
  ASSUME Lists
  PROVE  /\ Len(venue) \in Nat /\ DOMAIN venue = Ids /\ DOMAIN heard = Ids
         /\ \A n \in Ids : venue[n] \in VenueOrders /\ heard[n] \in 0..Qty
         /\ Len(deployed) \in Nat /\ DOMAIN deployed = 1..Len(deployed)
         /\ \A n \in DOMAIN deployed : deployed[n] \in Entries
         /\ DOMAIN toClose = 1..Len(toClose) /\ Len(toClose) \in Nat
         /\ \A n \in DOMAIN toClose : toClose[n] \in Entries
         /\ DOMAIN just_deployed = 1..Len(just_deployed) /\ Len(just_deployed) \in Nat
         /\ \A n \in DOMAIN just_deployed : just_deployed[n] \in Entries
         /\ DOMAIN orders = 1..Len(orders) /\ Len(orders) \in Nat
         /\ \A n \in DOMAIN orders : orders[n] \in Entries
         /\ DOMAIN temp = 1..Len(temp) /\ Len(temp) \in Nat
         /\ \A n \in DOMAIN temp : temp[n] \in Fills
<1>1. ASSUME NEW S, NEW q \in Seq(S)
      PROVE  Len(q) \in Nat /\ DOMAIN q = 1..Len(q) /\ \A n \in DOMAIN q : q[n] \in S
  BY LenProperties, ElementOfSeq
<1>2. /\ Len(venue) \in Nat /\ DOMAIN venue = Ids /\ \A n \in Ids : venue[n] \in VenueOrders
      /\ DOMAIN heard = Ids /\ \A n \in Ids : heard[n] \in 0..Qty
  BY <1>1 DEF Lists, Ids
<1>3. Len(deployed) \in Nat /\ DOMAIN deployed = 1..Len(deployed) /\ \A n \in DOMAIN deployed : deployed[n] \in Entries
  BY <1>1 DEF Lists
<1>4. Len(toClose) \in Nat /\ DOMAIN toClose = 1..Len(toClose) /\ \A n \in DOMAIN toClose : toClose[n] \in Entries
  BY <1>1 DEF Lists
<1>5. Len(just_deployed) \in Nat /\ DOMAIN just_deployed = 1..Len(just_deployed)
      /\ \A n \in DOMAIN just_deployed : just_deployed[n] \in Entries
  BY <1>1 DEF Lists
<1>6. Len(orders) \in Nat /\ DOMAIN orders = 1..Len(orders) /\ \A n \in DOMAIN orders : orders[n] \in Entries
  BY <1>1 DEF Lists
<1>7. Len(temp) \in Nat /\ DOMAIN temp = 1..Len(temp) /\ \A n \in DOMAIN temp : temp[n] \in Fills
  BY <1>1 DEF Lists
<1> QED  BY <1>2, <1>3, <1>4, <1>5, <1>6, <1>7

\* With more orders on the venue and more names accepted there are more entries,
\* fills and reports; those there were remain.
LEMMA MoreOfAll ==
  ASSUME Len(venue) \in Nat, Len(venue') \in Nat, Len(venue) <= Len(venue'), placed \subseteq placed',
         last_reported_fill_key \in Nat, last_reported_fill_key' \in Nat,
         last_reported_fill_key <= last_reported_fill_key'
  PROVE  /\ \A q \in Seq(Entries) : q \in Seq(Entries')
         /\ \A q \in Seq(Fills) : q \in Seq(Fills')
         /\ \A q \in Seq(Reports) : q \in Seq(Reports')
         /\ Fills \subseteq Fills'
<1>1. Entries \subseteq Entries' /\ Fills \subseteq Fills' /\ Reports \subseteq Reports'
  BY DEF Entries, Fills, Reports, Ids
<1> QED  BY <1>1, SeqMonotonic

\* The next place in the copy, or none.
LEMMA PollNextTurns ==
  ASSUME Controls, Lists, PollNext
  PROVE  \/ /\ poller' = "ask" /\ i' = i + 1 /\ orders' = orders
            /\ i < Len(orders) /\ orders # <<>>
         \/ poller' = "sleep" /\ i' = 1 /\ orders' = <<>>
<1>1. i \in Nat \ {0} /\ Len(orders) \in Nat
  BY Elements DEF Lists
<1>2. orders = <<>> => Len(orders) = 0
  BY EmptySeq
<1> QED  BY <1>1, <1>2 DEF PollNext

\* Either way the place stays in the copy.
LEMMA PollNextKeeps ==
  ASSUME Controls, Lists, PollNext
  PROVE  /\ i' \in Nat \ {0} /\ (orders' # <<>> => i' <= Len(orders'))
         /\ poller' = "sleep" => i' = 1
         /\ poller' \in {"ask", "answer", "send"} => orders' # <<>>
         /\ poller' \notin {"answer", "send"}
         /\ orders' \in Seq(Entries)
<1>1. i \in Nat /\ Len(orders) \in Nat /\ orders \in Seq(Entries) /\ <<>> \in Seq(Entries)
  BY Elements, EmptySeq DEF Lists
<1>2. CASE poller' = "ask" /\ i' = i + 1 /\ orders' = orders /\ i < Len(orders) /\ orders # <<>>
  BY <1>1, <1>2
<1>3. CASE poller' = "sleep" /\ i' = 1 /\ orders' = <<>>
  BY <1>1, <1>3
<1> QED  BY <1>2, <1>3, PollNextTurns

\* No step leaves the controls.
LEMMA ControlsPreserved ==
  ASSUME Controls, Lists, [Next]_vars
  PROVE  Controls'
<1> USE DEF Controls, mainVars, pollerVars, hubVars, historyVars, Mishaps
<1>1. ASSUME NEW id \in DOMAIN venue, VenueFill(id)  PROVE Controls'
  BY <1>1 DEF VenueFill
<1>2. ASSUME HubTakesReport  PROVE Controls'
  <2>1. Head(fills_rx) \in Reports
    BY <1>2, HeadTailProperties DEF HubTakesReport, Lists
  <2> QED  BY <1>2, <2>1 DEF HubTakesReport, Reports
<1>3. ASSUME HubSendsBatch  PROVE Controls'
  BY <1>3 DEF HubSendsBatch
<1>4. ASSUME PollFails \/ NothingNew \/ PushFill  PROVE Controls'
  <2>1. poller' \in {"ask", "sleep"}
    BY <1>4 DEF PollFails, NothingNew, PushFill, PollNext
  <2>2. faults' \in Nat
    BY <1>4 DEF PollFails, NothingNew, PushFill, Fault
  <2>3. UNCHANGED <<main, target, attempts, last_reported_fill_key, failures, hubVars, placed, mishaps, poisoned>>
    BY <1>4 DEF PollFails, NothingNew, PushFill
  <2> QED  BY <2>1, <2>2, <2>3
<1>5. ASSUME PollerWakes \/ PollFuturesOrder \/ NoteExecution \/ PollerPanics  PROVE Controls'
  <2>1. CASE PollerWakes \/ PollFuturesOrder
    <3>1. poller' \in {"ask", "answer"}
      BY <2>1 DEF PollerWakes, PollFuturesOrder
    <3>2. UNCHANGED <<main, target, attempts, last_reported_fill_key, failures, faults, hubVars,
                      placed, mishaps, poisoned>>
      BY <2>1 DEF PollerWakes, PollFuturesOrder
    <3> QED  BY <3>1, <3>2
  <2>2. CASE NoteExecution
    <3>1. mishaps' \subseteq Mishaps /\ (poisoned => "misplaced" \in mishaps')
      BY <2>2 DEF NoteExecution
    <3> QED  BY <2>2, <3>1 DEF NoteExecution
  <2>3. CASE PollerPanics
    BY <2>3 DEF PollerPanics
  <2> QED  BY <1>5, <2>1, <2>2, <2>3
<1>6. ASSUME TakePolledFill  PROVE Controls'
  BY <1>6 DEF TakePolledFill, Die
<1>7. ASSUME ReportFill \/ Drained  PROVE Controls'
  <2>1. CASE ReportFill
    BY <2>1 DEF ReportFill
  <2>2. CASE Drained
    BY <2>2 DEF Drained
  <2> QED  BY <1>7, <2>1, <2>2
<1>8. ASSUME SeeChange \/ Borrow  PROVE Controls'
  <2>1. CASE SeeChange
    BY <2>1 DEF SeeChange
  <2>2. CASE Borrow
    <3>1. hub_rx.names \subseteq OrderNames
      OBVIOUS
    <3> QED  BY <2>2, <3>1 DEF Borrow
  <2> QED  BY <1>8, <2>1, <2>2
<1>9. ASSUME StartClosing \/ CloseFails  PROVE Controls'
  <2>1. CASE StartClosing
    BY <2>1 DEF StartClosing, OutOfAttempts, Die
  <2>2. CASE CloseFails
    BY <2>2 DEF CloseFails, Fault
  <2> QED  BY <1>9, <2>1, <2>2
<1>10. ASSUME StopClosing \/ AllClosed \/ CloseOrder \/ NothingToClose  PROVE Controls'
  <2>1. CASE StopClosing
    BY <2>1 DEF StopClosing, StartPosting
  <2>2. CASE AllClosed
    BY <2>2 DEF AllClosed, StartPosting
  <2>3. CASE CloseOrder
    BY <2>3 DEF CloseOrder
  <2>4. CASE NothingToClose
    <3>1. failures' \in 0..(MAX_CONNECTION_FAILURES - 1)
      BY <2>4 DEF NothingToClose, ReportConnectionProblem
    <3> QED  BY <2>4, <3>1 DEF NothingToClose, StartPosting
  <2> QED  BY <1>10, <2>1, <2>2, <2>3, <2>4
<1>11. ASSUME NEW n \in OrderNames, PostFuturesOrder(n) \/ PostFails(n)  PROVE Controls'
  <2>1. CASE PostFuturesOrder(n)
    BY <2>1 DEF PostFuturesOrder, Posting
  <2>2. CASE PostFails(n)
    <3>1. /\ UNCHANGED <<main, poller, attempts, failures, last_reported_fill_key, batches, hubKey,
                         hub_rx, poisoned, unseen, placed>>
          /\ faults' = faults + 1 /\ target' = target \ {n}
      BY <2>2 DEF PostFails, Posting, Fault
    <3>2. mishaps' = mishaps \/ mishaps' = mishaps \union {"post_lost"}
      BY <2>2 DEF PostFails
    <3>3. mishaps' \subseteq Mishaps /\ (poisoned => "misplaced" \in mishaps')
      BY <3>2
    <3>4. target' \subseteq placed
      BY <3>1
    <3> QED  BY <3>1, <3>3, <3>4
  <2> QED  BY <1>11, <2>1, <2>2
<1>12. ASSUME Swap  PROVE Controls'
  BY <1>12 DEF Swap, Die
<1>13. ASSUME InfoUpdateFails  PROVE Controls'
  BY <1>13 DEF InfoUpdateFails, ReportConnectionProblem, Fault
<1>14. CASE UNCHANGED vars
  BY <1>14 DEF vars
<1> QED
  BY <1>1, <1>2, <1>3, <1>4, <1>5, <1>6, <1>7, <1>8, <1>9, <1>10, <1>11, <1>12, <1>13, <1>14
  DEF Next, Environment, Poller, ServeFills, Close, Post, InfoUpdater

\* A fill on the venue adds to one open order, which it completes or leaves open.
LEMMA VenueFillIs ==
  ASSUME Lists, NEW id \in Ids, VenueFill(id)
  PROVE  /\ venue' \in Seq(VenueOrders) /\ Len(venue') = Len(venue)
         /\ venue[id].status = "NEW" /\ venue'[id].name = venue[id].name
         /\ venue[id].filled < venue'[id].filled
         /\ venue'[id].status = IF venue'[id].filled = Qty THEN "FILLED" ELSE "NEW"
         /\ \A n \in Ids : n # id => venue'[n] = venue[n]
<1>1. venue[id] \in VenueOrders /\ id \in 1..Len(venue) /\ DOMAIN venue = Ids
  BY Elements DEF Ids
<1>2. PICK f \in (venue[id].filled + 1)..Qty :
        venue' = [venue EXCEPT ![id] =
                    [name |-> @.name, filled |-> f, status |-> IF f = Qty THEN "FILLED" ELSE "NEW"]]
  BY DEF VenueFill
<1> DEFINE e == [name |-> venue[id].name, filled |-> f, status |-> IF f = Qty THEN "FILLED" ELSE "NEW"]
<1>3. e \in VenueOrders
  BY <1>1, <1>2 DEF VenueOrders, Statuses
<1>4. venue' = [venue EXCEPT ![id] = e]
  BY <1>1, <1>2
<1>5. venue \in Seq(VenueOrders)
  BY DEF Lists
<1> HIDE DEF e
<1>6. /\ venue' \in Seq(VenueOrders) /\ Len(venue') = Len(venue)
      /\ venue'[id] = e /\ \A n \in Ids : n # id => venue'[n] = venue[n]
  BY <1>1, <1>3, <1>4, <1>5, ExceptSeq DEF Ids
<1>7. venue[id].filled \in Nat
  BY <1>1 DEF VenueOrders
<1>8. /\ venue'[id].name = venue[id].name /\ venue'[id].filled = f
      /\ venue'[id].status = IF f = Qty THEN "FILLED" ELSE "NEW"
  BY <1>6 DEF e
<1>9. venue[id].status = "NEW" /\ venue[id].filled < f
  BY <1>2, <1>7 DEF VenueFill
<1> QED  BY <1>6, <1>8, <1>9

\* A cancellation changes one order's status.
LEMMA CancelIs ==
  ASSUME Lists, NEW id \in Ids, Cancel(id)
  PROVE  /\ venue' \in Seq(VenueOrders) /\ Len(venue') = Len(venue)
         /\ venue'[id].name = venue[id].name /\ venue'[id].filled = venue[id].filled
         /\ venue'[id].status = "CANCELED"
         /\ \A n \in Ids : n # id => venue'[n] = venue[n]
<1>1. venue[id] \in VenueOrders /\ id \in 1..Len(venue) /\ DOMAIN venue = Ids
  BY Elements DEF Ids
<1> DEFINE e == [name |-> venue[id].name, filled |-> venue[id].filled, status |-> "CANCELED"]
<1>2. e \in VenueOrders
  BY <1>1 DEF VenueOrders, Statuses
<1>3. venue' = [venue EXCEPT ![id] = e]
  <2>1. e = [venue[id] EXCEPT !.status = "CANCELED"]
    BY <1>1 DEF VenueOrders
  <2> HIDE DEF e
  <2> QED  BY <1>1, <2>1 DEF Cancel
<1>4. venue \in Seq(VenueOrders)
  BY DEF Lists
<1> HIDE DEF e
<1>5. /\ venue' \in Seq(VenueOrders) /\ Len(venue') = Len(venue)
      /\ venue'[id] = e /\ \A n \in Ids : n # id => venue'[n] = venue[n]
  BY <1>1, <1>2, <1>3, <1>4, ExceptSeq DEF Ids
<1> QED  BY <1>5 DEF e

\* An accepted post adds an order of which nothing is filled or told.
LEMMA AcceptedIs ==
  ASSUME Lists, NEW n \in OrderNames, Accepted(n)
  PROVE  /\ venue' \in Seq(VenueOrders) /\ Len(venue') = Len(venue) + 1
         /\ venue'[Len(venue) + 1] = [name |-> n, filled |-> 0, status |-> "NEW"]
         /\ \A id \in Ids : venue'[id] = venue[id]
         /\ heard' \in Seq(0..Qty) /\ Len(heard') = Len(venue')
         /\ heard'[Len(venue) + 1] = 0 /\ \A id \in Ids : heard'[id] = heard[id]
<1> DEFINE e == [name |-> n, filled |-> 0, status |-> "NEW"]
<1>1. Qty \in Nat
  OBVIOUS
<1>2. e \in VenueOrders /\ 0 \in 0..Qty
  BY <1>1 DEF VenueOrders, Statuses
<1>3. venue' = Append(venue, e) /\ heard' = Append(heard, 0)
  BY DEF Accepted
<1>4. venue \in Seq(VenueOrders) /\ heard \in Seq(0..Qty) /\ Len(heard) = Len(venue)
  BY DEF Lists
<1> HIDE DEF e
<1>5. /\ venue' \in Seq(VenueOrders) /\ Len(venue') = Len(venue) + 1
      /\ venue'[Len(venue) + 1] = e /\ \A id \in Ids : venue'[id] = venue[id]
  BY <1>2, <1>3, <1>4, AppendProperties DEF Ids
<1>6. /\ heard' \in Seq(0..Qty) /\ Len(heard') = Len(heard) + 1
      /\ heard'[Len(heard) + 1] = 0 /\ \A id \in 1..Len(heard) : heard'[id] = heard[id]
  BY <1>2, <1>3, <1>4, AppendProperties
<1> QED  BY <1>4, <1>5, <1>6 DEF e, Ids

\* What noting an execution does to the deployed orders.
LEMMA NotedIs ==
  ASSUME Lists, NoteExecution
  PROVE  /\ i \in DOMAIN deployed /\ answer \in Fills /\ answer.executed \in 0..Qty
         /\ deployed' \in Seq(Entries) /\ DOMAIN deployed' = DOMAIN deployed
         /\ deployed'[i] = [id |-> deployed[i].id, name |-> deployed[i].name, filled |-> answer.executed]
         /\ \A n \in DOMAIN deployed : n # i => deployed'[n] = deployed[n]
         /\ heard' \in Seq(0..Qty) /\ Len(heard') = Len(heard)
         /\ answer.id \in Ids /\ heard'[answer.id] = answer.executed
         /\ \A id \in Ids : id # answer.id => heard'[id] = heard[id]
<1>1. answer \in Fills /\ answer.id \in Ids /\ answer.executed \in 0..Qty
  BY DEF NoteExecution, Lists, Fills
<1>2. i \in 1..Len(deployed) /\ DOMAIN deployed = 1..Len(deployed) /\ deployed[i] \in Entries
  BY Elements DEF NoteExecution, Slot, Lists
<1> DEFINE e == [id |-> deployed[i].id, name |-> deployed[i].name, filled |-> answer.executed]
<1>3. e \in Entries
  BY <1>1, <1>2 DEF Entries
<1>4. deployed' = [deployed EXCEPT ![i] = e]
  <2>1. e = [deployed[i] EXCEPT !.filled = answer.executed]
    BY <1>2 DEF Entries
  <2> HIDE DEF e
  <2> QED  BY <1>2, <2>1 DEF NoteExecution, Noted, Slot
<1>5. deployed \in Seq(Entries) /\ heard \in Seq(0..Qty) /\ Len(heard) = Len(venue)
  BY DEF Lists
<1> HIDE DEF e
<1>6. /\ deployed' \in Seq(Entries) /\ Len(deployed') = Len(deployed)
      /\ deployed'[i] = e /\ \A n \in 1..Len(deployed) : n # i => deployed'[n] = deployed[n]
  BY <1>2, <1>3, <1>4, <1>5, ExceptSeq
<1>7. DOMAIN deployed' = DOMAIN deployed
  BY <1>2, <1>6, LenProperties
<1>8. heard' = [heard EXCEPT ![answer.id] = answer.executed]
  BY DEF NoteExecution
<1>9. /\ heard' \in Seq(0..Qty) /\ Len(heard') = Len(heard)
      /\ heard'[answer.id] = answer.executed
      /\ \A id \in Ids : id # answer.id => heard'[id] = heard[id]
  BY <1>1, <1>5, <1>8, ExceptSeq DEF Ids
<1> QED  BY <1>1, <1>2, <1>6, <1>7, <1>9 DEF e

\* With as many orders and the same names the shapes are the same.
LEMMA SameShapes ==
  ASSUME Len(venue') = Len(venue), placed' = placed
  PROVE  Ids' = Ids /\ Entries' = Entries /\ Fills' = Fills
BY DEF Ids, Entries, Fills

\* An empty list is a list of anything.
LEMMA EmptyLists == <<>> \in Seq(Entries) /\ <<>> \in Seq(Fills)
BY EmptySeq

\* The environment and the main loop's calls leave the lists' shapes.
LEMMA ListsAtVenue ==
  ASSUME Controls, Lists,
         \/ \E id \in DOMAIN venue : VenueFill(id)
         \/ CloseOrder \/ CloseFails
  PROVE  Lists'
<1>1. ASSUME NEW id \in DOMAIN venue, VenueFill(id)  PROVE Lists'
  <2>1. venue' \in Seq(VenueOrders) /\ Len(venue') = Len(venue)
    BY <1>1, VenueFillIs, Elements
  <2>2. UNCHANGED <<deployed, temp, mainVars, pollerVars, hubVars, historyVars>>
    BY <1>1 DEF VenueFill
  <2>3. Entries' = Entries /\ Fills' = Fills /\ Reports' = Reports
    BY <2>1, <2>2, SameShapes DEF historyVars, mainVars, Reports
  <2> QED  BY <2>1, <2>2, <2>3 DEF Lists, mainVars, pollerVars, hubVars, historyVars
<1>2. ASSUME CloseOrder \/ CloseFails  PROVE Lists'
  <2>1. toClose # <<>> /\ main = "closing"
    BY <1>2 DEF CloseOrder, CloseFails
  <2>2. Head(toClose).id \in Ids /\ Tail(toClose) \in Seq(Entries)
    <3>1. Head(toClose) \in Entries /\ Tail(toClose) \in Seq(Entries)
      BY <2>1, HeadTailProperties DEF Lists
    <3> QED  BY <3>1 DEF Entries
  <2>3. venue' \in Seq(VenueOrders) /\ Len(venue') = Len(venue)
    BY <1>2, <2>2, CancelIs DEF CloseOrder, CloseFails, Lists
  <2>4. UNCHANGED <<deployed, temp, inHand, just_deployed, last_reported_fill_key, pollerVars,
                    hubVars, historyVars>> /\ main' # "report"
    BY <1>2, <2>1 DEF CloseOrder, CloseFails
  <2>5. toClose' = toClose \/ toClose' = Tail(toClose)
    BY <1>2 DEF CloseOrder, CloseFails
  <2>6. Entries' = Entries /\ Fills' = Fills /\ Reports' = Reports
    BY <2>3, <2>4, SameShapes DEF historyVars, Reports
  <2> QED  BY <2>2, <2>3, <2>4, <2>5, <2>6 DEF Lists, pollerVars, hubVars, historyVars
<1> QED  BY <1>1, <1>2

\* So do the reports to the hub, and its batches.
LEMMA ListsAtHub ==
  ASSUME Controls, Lists, HubTakesReport \/ HubSendsBatch \/ SeeChange \/ Borrow \/ ReportFill
  PROVE  Lists'
<1>0. UNCHANGED <<venue, heard, deployed, toClose, just_deployed, temp, pollerVars>>
  BY DEF HubTakesReport, HubSendsBatch, SeeChange, Borrow, ReportFill, historyVars, mainVars
<1>1. CASE HubTakesReport
  <2>1. fills_rx # <<>> /\ fills_rx' = Tail(fills_rx)
        /\ UNCHANGED <<mainVars, placed>>
    BY <1>1 DEF HubTakesReport, historyVars
  <2>2. fills_rx' \in Seq(Reports) /\ Len(fills_rx') <= HubCap
    <3>1. Tail(fills_rx) \in Seq(Reports) /\ Len(Tail(fills_rx)) = Len(fills_rx) - 1
      BY <2>1, HeadTailProperties DEF Lists
    <3>2. Len(fills_rx) \in Nat /\ Len(fills_rx) <= HubCap /\ HubCap \in Nat
      BY LenProperties DEF Lists
    <3> QED  BY <2>1, <3>1, <3>2
  <2>3. Entries' = Entries /\ Fills' = Fills /\ Reports' = Reports
    BY <1>0, <2>1, SameShapes DEF mainVars, Reports
  <2> QED  BY <1>0, <2>1, <2>2, <2>3 DEF Lists, mainVars, pollerVars
<1>2. CASE HubSendsBatch
  <2>1. UNCHANGED <<mainVars, placed, fills_rx>>
    BY <1>2 DEF HubSendsBatch, historyVars
  <2>2. Entries' = Entries /\ Fills' = Fills /\ Reports' = Reports
    BY <1>0, <2>1, SameShapes DEF mainVars, Reports
  <2> QED  BY <1>0, <2>1, <2>2 DEF Lists, mainVars, pollerVars
<1>3. CASE SeeChange
  <2>1. UNCHANGED <<placed, fills_rx, last_reported_fill_key>> /\ inHand' = NoFill /\ main' = "borrow"
    BY <1>3 DEF SeeChange
  <2>2. Entries' = Entries /\ Fills' = Fills /\ Reports' = Reports
    BY <1>0, <2>1, SameShapes DEF Reports
  <2> QED  BY <1>0, <2>1, <2>2 DEF Lists, pollerVars
<1>4. CASE Borrow
  <2>1. /\ placed \subseteq placed' /\ main' # "report"
        /\ UNCHANGED <<inHand, fills_rx, last_reported_fill_key>>
    BY <1>4 DEF Borrow, hubVars
  <2>2. /\ deployed \in Seq(Entries') /\ toClose \in Seq(Entries')
        /\ just_deployed \in Seq(Entries') /\ orders \in Seq(Entries')
        /\ temp \in Seq(Fills') /\ fills_rx \in Seq(Reports') /\ Fills \subseteq Fills'
    <3>1. /\ Len(venue) \in Nat /\ Len(venue') = Len(venue)
          /\ last_reported_fill_key \in Nat /\ last_reported_fill_key' = last_reported_fill_key
      BY <1>0, <2>1, Elements DEF Controls
    <3> QED  BY <2>1, <3>1, MoreOfAll DEF Lists
  <2> QED  BY <1>0, <2>1, <2>2 DEF Lists, pollerVars
<1>5. CASE ReportFill
  <2>1. /\ UNCHANGED placed /\ inHand' = NoFill /\ main' = "drain"
        /\ main = "report" /\ last_reported_fill_key' = last_reported_fill_key + 1
        /\ fills_rx' = Append(fills_rx, [key |-> last_reported_fill_key', owner |-> inHand.name])
        /\ Len(fills_rx) < HubCap
    BY <1>5 DEF ReportFill, historyVars
  <2>2. Entries' = Entries /\ Fills' = Fills
    BY <1>0, <2>1, SameShapes
  <2>3. fills_rx \in Seq(Reports')
    BY <1>0, <2>1, MoreOfAll, Elements DEF Lists, Controls
  <2>4. [key |-> last_reported_fill_key', owner |-> inHand.name] \in Reports'
    BY <2>1 DEF Controls, Lists, Fills, Reports
  <2>5. fills_rx' \in Seq(Reports') /\ Len(fills_rx') = Len(fills_rx) + 1 /\ Len(fills_rx) \in Nat
    BY <2>1, <2>3, <2>4, AppendProperties, LenProperties
  <2> QED  BY <1>0, <2>1, <2>2, <2>5 DEF Lists, pollerVars
<1> QED  BY <1>1, <1>2, <1>3, <1>4, <1>5

\* So does the poller.
LEMMA ListsAtPoller ==
  ASSUME Controls, Lists,
         \/ PollerWakes \/ PollFuturesOrder \/ PollFails
         \/ NothingNew \/ NoteExecution \/ PollerPanics \/ PushFill
  PROVE  Lists'
<1>0. UNCHANGED <<venue, mainVars, hubVars, placed>>
  BY DEF PollerWakes, PollFuturesOrder, PollFails, NothingNew, NoteExecution, PollerPanics, PushFill,
         historyVars
<1>e. Ids' = Ids /\ Entries' = Entries /\ Fills' = Fills /\ Reports' = Reports
  BY <1>0, SameShapes DEF mainVars, Reports
<1>1. CASE PollerWakes
  <2>1. /\ UNCHANGED <<deployed, temp, heard, i, answer>> /\ poller' = "ask"
        /\ orders' \in Shuffles(deployed) /\ deployed # <<>> /\ poller = "sleep"
    BY <1>1 DEF PollerWakes, historyVars
  <2>2. orders' \in Seq(Entries) /\ Len(orders') = Len(deployed)
    BY <2>1, ShuffledIs DEF Lists
  <2>3. Len(deployed) \in Nat \ {0}
    BY <2>1, EmptySeq DEF Lists
  <2>4. orders' # <<>>
    BY <2>2, <2>3, EmptySeq
  <2>5. i = 1 /\ i <= Len(orders')
    BY <2>1, <2>2, <2>3 DEF Lists
  <2> QED  BY <1>0, <1>e, <2>1, <2>2, <2>4, <2>5 DEF Lists, mainVars, hubVars
<1>2. CASE PollFuturesOrder
  <2> DEFINE o == orders[i]
  <2>1. /\ UNCHANGED <<deployed, temp, heard, i, orders>> /\ poller' = "answer" /\ orders # <<>>
        /\ answer' = [id |-> o.id, name |-> o.name,
                      executed |-> venue[o.id].filled, status |-> venue[o.id].status]
    BY <1>2 DEF PollFuturesOrder, historyVars, Lists
  <2>2. i \in DOMAIN orders
    BY <2>1, Elements DEF Lists
  <2>3. o.id \in Ids /\ o.name \in placed /\ venue[o.id] \in VenueOrders
    BY <2>2, Elements DEF Entries
  <2>4. answer' \in Fills /\ answer'.id = o.id
    BY <2>1, <2>3 DEF Fills, VenueOrders
  <2> QED  BY <1>0, <1>e, <2>1, <2>4 DEF Lists, mainVars, hubVars
<1>3. CASE PollFails \/ NothingNew
  <2>1. UNCHANGED <<deployed, temp, heard, answer>> /\ PollNext
    BY <1>3 DEF PollFails, NothingNew, historyVars
  <2> QED  BY <1>0, <1>e, <2>1, PollNextKeeps DEF Lists, mainVars, hubVars
<1>4. CASE NoteExecution
  <2>1. UNCHANGED <<temp, i, orders, answer>> /\ poller = "answer" /\ poller' = "send"
    BY <1>4 DEF NoteExecution
  <2>2. deployed' \in Seq(Entries) /\ heard' \in Seq(0..Qty) /\ Len(heard') = Len(heard)
    BY <1>4, NotedIs
  <2> QED  BY <1>0, <1>e, <2>1, <2>2 DEF Lists, mainVars, hubVars
<1>5. CASE PollerPanics
  BY <1>0, <1>e, <1>5 DEF PollerPanics, Lists, mainVars, hubVars
<1>6. CASE PushFill
  <2>1. /\ UNCHANGED <<deployed, heard, answer>> /\ PollNext
        /\ temp' = Append(temp, answer) /\ Len(temp) < TempCap /\ answer \in Fills
    BY <1>6 DEF PushFill, historyVars, Lists
  <2>3. temp' \in Seq(Fills) /\ Len(temp') <= TempCap
    <3>1. temp' \in Seq(Fills) /\ Len(temp') = Len(temp) + 1 /\ Len(temp) \in Nat
      BY <2>1, AppendProperties, LenProperties DEF Lists
    <3>2. TempCap \in Nat
      OBVIOUS
    <3> QED  BY <2>1, <3>1, <3>2
  <2> QED  BY <1>0, <1>e, <2>1, <2>3, PollNextKeeps DEF Lists, mainVars, hubVars
<1> QED  BY <1>1, <1>2, <1>3, <1>4, <1>5, <1>6

\* So does the rest of the main loop.
LEMMA ListsAtMain ==
  ASSUME Controls, Lists, Names,
         \/ TakePolledFill \/ StartClosing \/ StopClosing \/ AllClosed \/ NothingToClose \/ Swap
         \/ \E n \in OrderNames : PostFuturesOrder(n) \/ PostFails(n)
  PROVE  Lists'
<1>1. CASE TakePolledFill
  <2>1. /\ UNCHANGED <<venue, heard, toClose, just_deployed, last_reported_fill_key, pollerVars,
                       hubVars, placed>>
        /\ temp # <<>> /\ temp' = Tail(temp)
        /\ \/ main' = "panicked" /\ UNCHANGED <<deployed, inHand>>
           \/ main' = "report" /\ inHand' = Head(temp) /\ deployed' = Remaining(Head(temp))
    BY <1>1 DEF TakePolledFill, Die, historyVars
  <2>2. /\ Head(temp) \in Fills /\ Tail(temp) \in Seq(Fills) /\ Len(Tail(temp)) = Len(temp) - 1
        /\ Len(temp) \in Nat
    BY <2>1, HeadTailProperties, LenProperties DEF Lists
  <2>3. Remaining(Head(temp)) \in Seq(Entries)
    BY RemainingIs DEF Lists, Names
  <2>4. Entries' = Entries /\ Fills' = Fills /\ Reports' = Reports
    BY <2>1, SameShapes DEF Reports
  <2>5. Len(temp') <= TempCap
    <3>1. TempCap \in Nat /\ Len(temp) <= TempCap
      BY DEF Lists
    <3> QED  BY <2>1, <2>2, <3>1
  <2>6. (inHand' = inHand \/ inHand' \in Fills) /\ (main' = "report" => inHand' \in Fills)
    BY <2>1, <2>2
  <2>7. deployed' \in Seq(Entries)
    BY <2>1, <2>3 DEF Lists
  <2>8. temp' \in Seq(Fills) /\ inHand' \in Fills \union {NoFill}
    BY <2>1, <2>2, <2>6 DEF Lists
  <2> QED  BY <2>1, <2>4, <2>5, <2>6, <2>7, <2>8 DEF Lists, pollerVars, hubVars
<1>2. CASE StartClosing \/ StopClosing \/ AllClosed \/ NothingToClose
  <2>1. UNCHANGED <<venue, heard, deployed, temp, inHand, last_reported_fill_key, pollerVars, hubVars,
                    placed>>
    BY <1>2 DEF StartClosing, StopClosing, AllClosed, NothingToClose, Die, historyVars
  <2>2. /\ toClose' = toClose \/ toClose' = deployed
        /\ just_deployed' = just_deployed \/ just_deployed' = <<>>
        /\ main' # "report"
    BY <1>2 DEF StartClosing, StopClosing, AllClosed, NothingToClose, Die, StartPosting
  <2>3. Entries' = Entries /\ Fills' = Fills /\ Reports' = Reports
    BY <2>1, SameShapes DEF Reports
  <2>4. toClose' \in Seq(Entries) /\ just_deployed' \in Seq(Entries)
    BY <2>2, EmptyLists DEF Lists
  <2> QED  BY <2>1, <2>2, <2>3, <2>4 DEF Lists, pollerVars, hubVars
<1>3. CASE Swap
  <2>1. /\ UNCHANGED <<venue, heard, temp, inHand, toClose, just_deployed, last_reported_fill_key,
                       pollerVars, hubVars, placed>>
        /\ deployed' = deployed \/ deployed' = just_deployed
        /\ main' # "report"
    BY <1>3 DEF Swap, Die, historyVars
  <2>2. Entries' = Entries /\ Fills' = Fills /\ Reports' = Reports
    BY <2>1, SameShapes DEF Reports
  <2> QED  BY <2>1, <2>2 DEF Lists, pollerVars, hubVars
<1>4. ASSUME NEW n \in OrderNames, PostFuturesOrder(n) \/ PostFails(n)  PROVE Lists'
  <2>1. /\ UNCHANGED <<deployed, temp, main, inHand, toClose, last_reported_fill_key, pollerVars,
                       hubVars, placed>>
        /\ n \in target
    BY <1>4 DEF PostFuturesOrder, PostFails, Posting
  <2>2. Accepted(n) \/ UNCHANGED <<venue, heard>>
    BY <1>4 DEF PostFuturesOrder, PostFails
  <2>3. /\ venue' \in Seq(VenueOrders) /\ heard' \in Seq(0..Qty) /\ Len(heard') = Len(venue')
        /\ Len(venue') \in Nat /\ Len(venue) \in Nat /\ Len(venue) <= Len(venue')
    <3>1. Len(venue) \in Nat
      BY Elements
    <3>2. CASE Accepted(n)
      <4>1. /\ venue' \in Seq(VenueOrders) /\ heard' \in Seq(0..Qty) /\ Len(heard') = Len(venue')
            /\ Len(venue') = Len(venue) + 1
        BY <3>2, AcceptedIs
      <4> QED  BY <3>1, <4>1
    <3>3. CASE UNCHANGED <<venue, heard>>
      BY <3>1, <3>3 DEF Lists
    <3> QED  BY <2>2, <3>2, <3>3
  <2>4. /\ deployed \in Seq(Entries') /\ toClose \in Seq(Entries')
        /\ just_deployed \in Seq(Entries') /\ orders \in Seq(Entries')
        /\ temp \in Seq(Fills') /\ fills_rx \in Seq(Reports') /\ Fills \subseteq Fills'
    <3>1. placed \subseteq placed' /\ last_reported_fill_key \in Nat /\ last_reported_fill_key' \in Nat
          /\ last_reported_fill_key <= last_reported_fill_key'
      BY <2>1 DEF Controls
    <3> QED  BY <2>3, <3>1, MoreOfAll DEF Lists
  <2>5. just_deployed' \in Seq(Entries')
    <3>1. CASE PostFuturesOrder(n)
      <4> DEFINE e == [id |-> Len(venue) + 1, name |-> n, filled |-> 0]
      <4>1. /\ Len(venue') = Len(venue) + 1 /\ just_deployed' = Append(just_deployed, e)
        BY <3>1, AcceptedIs DEF PostFuturesOrder
      <4>2. n \in placed' /\ 0 \in 0..Qty /\ Len(venue) + 1 \in Ids'
        BY <2>1, <2>3, <4>1 DEF Controls, Ids
      <4>3. e \in Entries'
        BY <4>2 DEF Entries
      <4> HIDE DEF e
      <4> QED  BY <2>4, <4>1, <4>3, AppendProperties
    <3>2. CASE PostFails(n)
      BY <2>4, <3>2 DEF PostFails
    <3> QED  BY <1>4, <3>1, <3>2
  <2> QED  BY <2>1, <2>3, <2>4, <2>5 DEF Lists, pollerVars, hubVars
<1> QED  BY <1>1, <1>2, <1>3, <1>4

\* No step leaves the lists' shapes.
LEMMA ListsPreserved ==
  ASSUME Controls, Lists, Names, [Next]_vars
  PROVE  Lists'
<1>1. CASE Drained \/ InfoUpdateFails \/ UNCHANGED vars
  <2>1. /\ UNCHANGED <<venue, heard, deployed, toClose, just_deployed, temp, inHand, pollerVars, hubVars,
                       last_reported_fill_key, placed>>
        /\ main' = main \/ main' # "report"
    BY <1>1 DEF Drained, InfoUpdateFails, vars, mainVars, historyVars
  <2>2. Entries' = Entries /\ Fills' = Fills /\ Reports' = Reports
    BY <2>1, SameShapes DEF Reports
  <2> QED  BY <2>1, <2>2 DEF Lists, pollerVars, hubVars
<1> QED
  BY <1>1, ListsAtVenue, ListsAtHub, ListsAtPoller, ListsAtMain
  DEF Next, Environment, Poller, ServeFills, Close, Post, InfoUpdater
-----------------------------------------------------------------------------
(***************************************************************************)
(* Which steps touch what.                                                 *)
(***************************************************************************)
\* The lists each change in a few steps only.
LEMMA Frame ==
  ASSUME [Next]_vars
  PROVE  /\ deployed' = deployed \/ NoteExecution \/ TakePolledFill \/ Swap
         /\ \/ just_deployed' = just_deployed
            \/ just_deployed' = <<>>
            \/ \E n \in OrderNames : PostFuturesOrder(n)
         /\ orders' = orders \/ PollerWakes \/ (PollNext /\ orders' = <<>>)
         /\ temp' = temp \/ PushFill \/ TakePolledFill
         /\ \/ UNCHANGED <<venue, heard>>
            \/ NoteExecution
            \/ \E n \in OrderNames : Accepted(n) /\ (PostFuturesOrder(n) \/ "post_lost" \in mishaps')
            \/ UNCHANGED <<heard, mishaps>> /\ \E id \in DOMAIN venue : VenueFill(id)
            \/ /\ CloseOrder \/ CloseFails
               /\ venue[Head(toClose).id].status = "NEW" /\ Cancel(Head(toClose).id)
               /\ UNCHANGED <<heard, mishaps>>
         /\ mishaps \subseteq mishaps'
         /\ \/ poller' \notin {"answer", "send"}
            \/ UNCHANGED <<poller, orders, i, answer>>
            \/ PollFuturesOrder \/ NoteExecution
         /\ UNCHANGED <<poller, orders, i, answer>> \/ (main # "panicked" /\ Poller)
<1> USE DEF mainVars, pollerVars, hubVars, historyVars
<1>1. ASSUME NEW id \in DOMAIN venue, VenueFill(id)
      PROVE  UNCHANGED <<deployed, just_deployed, orders, temp, heard, mishaps, poller, i, answer>>
  BY <1>1 DEF VenueFill
<1>2. ASSUME HubTakesReport \/ HubSendsBatch \/ SeeChange \/ Borrow \/ ReportFill \/ Drained
             \/ InfoUpdateFails \/ UNCHANGED vars
      PROVE  /\ UNCHANGED <<venue, deployed, just_deployed, orders, temp, heard, poller, i, answer>>
             /\ mishaps \subseteq mishaps'
  BY <1>2 DEF HubTakesReport, HubSendsBatch, SeeChange, Borrow, ReportFill, Drained, InfoUpdateFails, vars
<1>3. ASSUME PollerWakes \/ PollFuturesOrder
      PROVE  /\ UNCHANGED <<venue, deployed, just_deployed, temp, heard, mishaps>>
             /\ PollerWakes => poller' = "ask"
             /\ PollFuturesOrder => UNCHANGED orders
  BY <1>3 DEF PollerWakes, PollFuturesOrder
<1>4. ASSUME PollFails \/ NothingNew \/ PushFill
      PROVE  /\ UNCHANGED <<venue, deployed, just_deployed, heard, mishaps, answer>> /\ PollNext
             /\ temp' = temp \/ PushFill
             /\ poller' \notin {"answer", "send"}
             /\ orders' = orders \/ orders' = <<>>
  BY <1>4 DEF PollFails, NothingNew, PushFill, PollNext
<1>5. ASSUME NoteExecution \/ PollerPanics
      PROVE  /\ UNCHANGED <<venue, just_deployed, orders, temp>> /\ mishaps \subseteq mishaps'
             /\ NoteExecution \/ (UNCHANGED <<deployed, heard>> /\ poller' = "panicked")
  BY <1>5 DEF NoteExecution, PollerPanics
<1>6. ASSUME TakePolledFill \/ Swap
      PROVE  /\ UNCHANGED <<venue, just_deployed, orders, heard, mishaps, poller, i, answer>>
             /\ temp' = temp \/ TakePolledFill
  BY <1>6 DEF TakePolledFill, Swap
<1>7. ASSUME StartClosing \/ StopClosing \/ AllClosed \/ NothingToClose
      PROVE  /\ UNCHANGED <<venue, deployed, orders, temp, heard, poller, i, answer>>
             /\ mishaps \subseteq mishaps'
             /\ just_deployed' = just_deployed \/ just_deployed' = <<>>
  BY <1>7 DEF StartClosing, StopClosing, AllClosed, NothingToClose, StartPosting, Die
<1>8. ASSUME CloseOrder \/ CloseFails
      PROVE  /\ UNCHANGED <<deployed, just_deployed, orders, temp, heard, mishaps, poller, i, answer>>
             /\ \/ UNCHANGED venue
                \/ venue[Head(toClose).id].status = "NEW" /\ Cancel(Head(toClose).id)
  BY <1>8 DEF CloseOrder, CloseFails
<1>9. ASSUME NEW n \in OrderNames, PostFuturesOrder(n) \/ PostFails(n)
      PROVE  /\ UNCHANGED <<deployed, orders, temp, poller, i, answer>>
             /\ mishaps \subseteq mishaps'
             /\ just_deployed' = just_deployed \/ PostFuturesOrder(n)
             /\ \/ UNCHANGED <<venue, heard>>
                \/ Accepted(n) /\ (PostFuturesOrder(n) \/ "post_lost" \in mishaps')
  BY <1>9 DEF PostFuturesOrder, PostFails, Posting
<1>10. \/ \E id \in DOMAIN venue : VenueFill(id)
       \/ HubTakesReport \/ HubSendsBatch \/ SeeChange \/ Borrow \/ ReportFill \/ Drained
       \/ InfoUpdateFails \/ UNCHANGED vars
       \/ main # "panicked" /\ Poller
       \/ TakePolledFill \/ Swap
       \/ StartClosing \/ StopClosing \/ AllClosed \/ NothingToClose
       \/ CloseOrder \/ CloseFails
       \/ \E n \in OrderNames : PostFuturesOrder(n) \/ PostFails(n)
  BY DEF Next, Environment, Poller, ServeFills, Close, Post, InfoUpdater
<1>11. CASE main # "panicked" /\ Poller
  <2>1. CASE PollerWakes \/ PollFuturesOrder
    BY <1>3, <1>11, <2>1
  <2>2. CASE PollFails \/ NothingNew \/ PushFill
    BY <1>4, <1>11, <2>2
  <2>3. CASE NoteExecution \/ PollerPanics
    BY <1>5, <1>11, <2>3
  <2> QED  BY <1>11, <2>1, <2>2, <2>3 DEF Poller
<1>12. CASE \E id \in DOMAIN venue : VenueFill(id)
  BY <1>1, <1>12
<1>13. CASE CloseOrder \/ CloseFails
  BY <1>8, <1>13
<1>14. CASE \E n \in OrderNames : PostFuturesOrder(n) \/ PostFails(n)
  BY <1>9, <1>14
<1>15. CASE TakePolledFill \/ Swap
  BY <1>6, <1>15
<1>16. CASE StartClosing \/ StopClosing \/ AllClosed \/ NothingToClose
  BY <1>7, <1>16
<1> QED
  BY <1>2, <1>10, <1>11, <1>12, <1>13, <1>14, <1>15, <1>16

\* Orders keep their names on the venue, and once closed or filled stay as they are.
LEMMA VenueMoves ==
  ASSUME Lists, [Next]_vars
  PROVE  /\ Len(venue) <= Len(venue') /\ Ids \subseteq Ids'
         /\ \A id \in Ids :
              /\ venue'[id].name = venue[id].name
              /\ venue[id].filled <= venue'[id].filled
              /\ venue[id].status # "NEW" => venue'[id] = venue[id]
<1>1. /\ Len(venue) \in Nat
      /\ \A id \in Ids : venue[id].filled \in Nat
  BY Elements DEF VenueOrders
<1>2. CASE UNCHANGED venue
  BY <1>1, <1>2 DEF Ids
<1>3. ASSUME NEW n \in OrderNames, Accepted(n)
      PROVE  Len(venue') = Len(venue) + 1 /\ \A id \in Ids : venue'[id] = venue[id]
  BY <1>3, AcceptedIs
<1>4. ASSUME NEW id \in Ids, VenueFill(id) \/ (venue[id].status = "NEW" /\ Cancel(id))
      PROVE  /\ Len(venue') = Len(venue) /\ venue[id].status = "NEW"
             /\ venue'[id].name = venue[id].name /\ venue[id].filled <= venue'[id].filled
             /\ \A n \in Ids : n # id => venue'[n] = venue[n]
  <2>1. CASE VenueFill(id)
    <3>1. /\ Len(venue') = Len(venue) /\ venue[id].status = "NEW"
          /\ venue'[id].name = venue[id].name /\ venue[id].filled < venue'[id].filled
          /\ \A n \in Ids : n # id => venue'[n] = venue[n]
          /\ venue' \in Seq(VenueOrders)
      BY <2>1, VenueFillIs
    <3>2. venue'[id] \in VenueOrders
      BY <3>1, ElementOfSeq DEF Ids
    <3>3. venue'[id].filled \in Nat
      BY <3>2 DEF VenueOrders
    <3> QED  BY <1>1, <3>1, <3>3
  <2>2. CASE venue[id].status = "NEW" /\ Cancel(id)
    BY <1>1, <2>2, CancelIs
  <2> QED  BY <1>4, <2>1, <2>2
<1>5. CASE \E n \in OrderNames : Accepted(n)
  BY <1>1, <1>3, <1>5 DEF Ids
<1>6. CASE \E id \in Ids : VenueFill(id) \/ (venue[id].status = "NEW" /\ Cancel(id))
  BY <1>1, <1>4, <1>6 DEF Ids
<1>7. CloseOrder \/ CloseFails => Head(toClose).id \in Ids
  <2>1. CloseOrder \/ CloseFails => toClose # <<>>
    BY DEF CloseOrder, CloseFails
  <2>2. toClose # <<>> => Head(toClose) \in Entries
    BY HeadTailProperties DEF Lists
  <2> QED  BY <2>1, <2>2 DEF Entries
<1>8. NoteExecution => UNCHANGED venue
  BY DEF NoteExecution
<1> QED  BY <1>2, <1>5, <1>6, <1>7, <1>8, Frame, Elements
-----------------------------------------------------------------------------
(***************************************************************************)
(* Names.                                                                  *)
(***************************************************************************)
\* The deployed orders afterwards were deployed before, or have just been.
LEMMA DeployedNext ==
  ASSUME Controls, Lists, Names, [Next]_vars
  PROVE  \/ deployed' = deployed
         \/ NoteExecution
         \/ /\ TakePolledFill /\ temp # <<>> /\ main' = "report"
            /\ temp' = Tail(temp) /\ deployed' = Remaining(Head(temp))
         \/ Swap /\ main = "post" /\ main' = "select" /\ ~poisoned /\ deployed' = just_deployed
<1>1. TakePolledFill => /\ deployed' = deployed \/ (main' = "report" /\ deployed' = Remaining(Head(temp)))
                        /\ temp # <<>> /\ temp' = Tail(temp)
  BY DEF TakePolledFill, Die
<1>2. Swap => \/ deployed' = deployed
              \/ main = "post" /\ main' = "select" /\ ~poisoned /\ deployed' = just_deployed
  BY DEF Swap, Die
<1> QED  BY <1>1, <1>2, Frame

\* Lists keep their names.
LEMMA NamedStays ==
  ASSUME Lists, [Next]_vars, NEW q, \A n \in DOMAIN q : q[n].id \in Ids, Named(q)
  PROVE  \A n \in DOMAIN q : q[n].name = venue'[q[n].id].name
BY VenueMoves DEF Named

\* An entry added to a list leaves the others in their places.
LEMMA AppendedIs ==
  ASSUME NEW S, NEW q \in Seq(S), NEW e
  PROVE  /\ DOMAIN q = 1..Len(q) /\ Len(q) \in Nat
         /\ DOMAIN Append(q, e) = 1..(Len(q) + 1)
         /\ \A n \in DOMAIN q : Append(q, e)[n] = q[n]
         /\ Append(q, e)[Len(q) + 1] = e
<1> DEFINE T == S \union {e}
<1>1. q \in Seq(T)
  BY SeqMonotonic
<1>2. e \in T
  OBVIOUS
<1> HIDE DEF T
<1>3. DOMAIN q = 1..Len(q) /\ Len(q) \in Nat
  BY LenProperties
<1>4. /\ Append(q, e) \in Seq(T) /\ Len(Append(q, e)) = Len(q) + 1
      /\ \A n \in 1..Len(q) : Append(q, e)[n] = q[n]
      /\ Append(q, e)[Len(q) + 1] = e
  BY <1>1, <1>2, AppendProperties
<1>5. DOMAIN Append(q, e) = 1..(Len(q) + 1)
  BY <1>4, LenProperties
<1> QED  BY <1>3, <1>4, <1>5

\* One less at the front moves the others up by one.
LEMMA TailIs ==
  ASSUME NEW S, NEW q \in Seq(S), q # <<>>
  PROVE  /\ Tail(q) \in Seq(S) /\ Len(q) \in Nat \ {0} /\ DOMAIN q = 1..Len(q)
         /\ DOMAIN Tail(q) = 1..(Len(q) - 1)
         /\ \A n \in DOMAIN Tail(q) : Tail(q)[n] = q[n + 1] /\ n + 1 \in DOMAIN q
         /\ Head(q) = q[1] /\ 1 \in DOMAIN q
<1>1. /\ Tail(q) \in Seq(S) /\ Len(Tail(q)) = Len(q) - 1
      /\ \A n \in 1..Len(Tail(q)) : Tail(q)[n] = q[n + 1]
  BY HeadTailProperties
<1>2. Len(q) \in Nat /\ DOMAIN q = 1..Len(q) /\ Len(q) # 0
  BY LenProperties, EmptySeq
<1>3. DOMAIN Tail(q) = 1..(Len(q) - 1)
  BY <1>1, LenProperties
<1>4. Head(q) = q[1] /\ 1 \in DOMAIN q
  BY <1>2
<1>5. \A n \in DOMAIN Tail(q) : n + 1 \in DOMAIN q
  BY <1>2, <1>3
<1> QED  BY <1>1, <1>2, <1>3, <1>4, <1>5

\* The loop that posts goes on with fewer targets, or has just begun.
LEMMA PostTurns ==
  ASSUME [Next]_vars
  PROVE  main' = "post" => (main = "post" /\ target' \subseteq target) \/ just_deployed' = <<>>
<1> USE DEF mainVars, pollerVars, hubVars, historyVars
<1>1. CASE Environment \/ InfoUpdater \/ UNCHANGED vars
  BY <1>1 DEF Environment, VenueFill, HubTakesReport, HubSendsBatch, InfoUpdater, InfoUpdateFails, vars
<1>2. CASE Poller
  BY <1>2 DEF Poller, PollerWakes, PollFuturesOrder, PollFails, NothingNew, NoteExecution, PollerPanics, PushFill
<1>3. CASE ServeFills \/ SeeChange \/ Borrow
  BY <1>3 DEF ServeFills, TakePolledFill, ReportFill, Drained, SeeChange, Borrow, Die
<1>4. CASE Close
  BY <1>4 DEF Close, StartClosing, StopClosing, AllClosed, CloseOrder, NothingToClose, CloseFails, StartPosting, Die
<1>5. CASE Swap
  BY <1>5 DEF Swap, Die
<1>6. ASSUME NEW n \in OrderNames, PostFuturesOrder(n) \/ PostFails(n)
      PROVE  main = "post" /\ main' = "post" /\ target' \subseteq target /\ deployed' = deployed
  BY <1>6 DEF PostFuturesOrder, PostFails, Posting
<1> QED  BY <1>1, <1>2, <1>3, <1>4, <1>5, <1>6 DEF Next, Post

\* No step deploys a name twice, or under the name of another order.
LEMMA NamesDeployed ==
  ASSUME Controls, Lists, Names, [Next]_vars
  PROVE  Named(deployed)' /\ Distinct(deployed)'
<1>0. /\ \A n \in DOMAIN deployed : deployed[n].id \in Ids
      /\ \A n \in DOMAIN just_deployed : just_deployed[n].id \in Ids
  BY Elements DEF Entries
<1>1. /\ \A n \in DOMAIN deployed : deployed[n].name = venue'[deployed[n].id].name
      /\ \A n \in DOMAIN just_deployed : just_deployed[n].name = venue'[just_deployed[n].id].name
      /\ Distinct(deployed) /\ Distinct(just_deployed)
  BY <1>0, NamedStays DEF Names
<1>2. CASE deployed' = deployed
  BY <1>1, <1>2 DEF Named, Distinct
<1>3. CASE NoteExecution
  <2>1. /\ DOMAIN deployed' = DOMAIN deployed
        /\ deployed'[i] = [id |-> deployed[i].id, name |-> deployed[i].name, filled |-> answer.executed]
        /\ \A n \in DOMAIN deployed : n # i => deployed'[n] = deployed[n]
    BY <1>3, NotedIs
  <2>2. deployed'[i].id = deployed[i].id /\ deployed'[i].name = deployed[i].name
    BY <2>1
  <2>3. \A n \in DOMAIN deployed : deployed'[n].id = deployed[n].id /\ deployed'[n].name = deployed[n].name
    BY <2>1, <2>2
  <2> QED  BY <1>1, <2>1, <2>3 DEF Named, Distinct
<1>4. CASE deployed' = Remaining(Head(temp))
  <2> DEFINE f == Head(temp)
             r == Remaining(f)
  <2>1. deployed \in Seq(Entries)
    BY DEF Lists
  <2>2. /\ \A n \in DOMAIN r : \E m \in DOMAIN deployed : r[n] = deployed[m]
        /\ Distinct(r)
    <3> HIDE DEF f
    <3> QED  BY <1>1, <2>1, RemainingIs
  <2>3. deployed' = r
    BY <1>4
  <2> HIDE DEF r, f
  <2> QED  BY <1>1, <2>2, <2>3 DEF Named, Distinct
<1>5. CASE deployed' = just_deployed
  BY <1>1, <1>5 DEF Named, Distinct
<1> QED  BY <1>2, <1>3, <1>4, <1>5, DeployedNext

\* No step posts a name twice.
LEMMA NamesPosted ==
  ASSUME Controls, Lists, Names, [Next]_vars
  PROVE  /\ Named(just_deployed)' /\ Distinct(just_deployed)'
         /\ main' = "post" => \A n \in DOMAIN just_deployed' : just_deployed'[n].name \notin target'
<1>0. \A n \in DOMAIN just_deployed : just_deployed[n].id \in Ids
  BY Elements DEF Entries
<1>1. /\ \A n \in DOMAIN just_deployed : just_deployed[n].name = venue'[just_deployed[n].id].name
      /\ Distinct(just_deployed)
  BY <1>0, NamedStays DEF Names
<1>2. CASE just_deployed' = <<>>
  <2>1. DOMAIN just_deployed' = {}
    BY <1>2
  <2> QED  BY <2>1 DEF Named, Distinct
<1>3. CASE just_deployed' = just_deployed /\ just_deployed # <<>>
  <2>1. Named(just_deployed)' /\ Distinct(just_deployed)'
    BY <1>1, <1>3 DEF Named, Distinct
  <2>2. main' = "post" => main = "post" /\ target' \subseteq target
    BY <1>3, PostTurns
  <2> QED  BY <1>3, <2>1, <2>2 DEF Names
<1>4. ASSUME NEW n \in OrderNames, PostFuturesOrder(n)
      PROVE  /\ Named(just_deployed)' /\ Distinct(just_deployed)'
             /\ \A m \in DOMAIN just_deployed' : just_deployed'[m].name \notin target'
  <2> DEFINE e == [id |-> Len(venue) + 1, name |-> n, filled |-> 0]
             k == Len(just_deployed)
  <2>1. /\ n \in target /\ target' = target \ {n} /\ main = "post"
        /\ just_deployed' = Append(just_deployed, e) /\ Accepted(n)
    BY <1>4 DEF PostFuturesOrder, Posting
  <2>2. venue'[Len(venue) + 1].name = n
    <3>1. venue'[Len(venue) + 1] = [name |-> n, filled |-> 0, status |-> "NEW"]
      BY <2>1, AcceptedIs
    <3> QED  BY <3>1
  <2>3. e.id = Len(venue) + 1 /\ e.name = n
    OBVIOUS
  <2>4. \A m \in DOMAIN just_deployed : just_deployed[m].name # n /\ just_deployed[m].name \notin target'
    BY <2>1 DEF Names
  <2>5. just_deployed \in Seq(Entries)
    BY DEF Lists
  <2> HIDE DEF e
  <2>6. /\ k \in Nat /\ DOMAIN just_deployed = 1..k /\ DOMAIN just_deployed' = 1..(k + 1)
        /\ \A m \in 1..k : just_deployed'[m] = just_deployed[m]
        /\ just_deployed'[k + 1] = e
    BY <2>1, <2>5, AppendedIs
  <2>7. Named(just_deployed)'
    BY <1>1, <2>2, <2>3, <2>6 DEF Named
  <2>8. ASSUME NEW a \in 1..(k + 1), NEW b \in 1..(k + 1), just_deployed'[a].name = just_deployed'[b].name
        PROVE  a = b
    <3>1. CASE a \in 1..k /\ b \in 1..k
      BY <1>1, <2>6, <2>8, <3>1 DEF Distinct
    <3>2. \A m \in 1..k : just_deployed'[m].name # just_deployed'[k + 1].name
      BY <2>3, <2>4, <2>6
    <3>3. CASE a = k + 1 /\ b \in 1..k
      BY <2>8, <3>2, <3>3
    <3>4. CASE b = k + 1 /\ a \in 1..k
      BY <2>8, <3>2, <3>4
    <3>5. a \in 1..k \/ a = k + 1
      BY <2>6
    <3>6. b \in 1..k \/ b = k + 1
      BY <2>6
    <3> QED  BY <3>1, <3>3, <3>4, <3>5, <3>6
  <2>9. \A m \in DOMAIN just_deployed' : just_deployed'[m].name \notin target'
    BY <2>1, <2>3, <2>4, <2>6
  <2> QED  BY <2>6, <2>7, <2>8, <2>9 DEF Distinct
<1> QED  BY <1>2, <1>3, <1>4, Frame

\* The poller's copy has the names of the deployed orders.
LEMMA NamesPolled ==
  ASSUME Controls, Lists, Names, [Next]_vars
  PROVE  /\ Named(orders)' /\ Distinct(orders)'
         /\ poller' \in {"answer", "send"} => answer'.name = venue'[answer'.id].name
<1>0. /\ \A n \in DOMAIN deployed : deployed[n].id \in Ids
      /\ \A n \in DOMAIN orders : orders[n].id \in Ids
  BY Elements DEF Entries
<1>1. /\ \A n \in DOMAIN deployed : deployed[n].name = venue'[deployed[n].id].name
      /\ \A n \in DOMAIN orders : orders[n].name = venue'[orders[n].id].name
      /\ Distinct(deployed) /\ Distinct(orders)
  BY <1>0, NamedStays DEF Names
<1>2. Named(orders)' /\ Distinct(orders)'
  <2>1. CASE orders' = orders
    BY <1>1, <2>1 DEF Named, Distinct
  <2>2. CASE orders' = <<>>
    <3>1. DOMAIN orders' = {}
      BY <2>2
    <3> QED  BY <3>1 DEF Named, Distinct
  <2>3. CASE PollerWakes
    <3>1. orders' \in Shuffles(deployed) /\ deployed \in Seq(Entries)
      BY <2>3 DEF PollerWakes, Lists
    <3>2. /\ \A n \in DOMAIN orders' : \E m \in DOMAIN deployed : orders'[n] = deployed[m]
          /\ Distinct(orders')
      BY <1>1, <3>1, ShuffledIs
    <3> QED  BY <1>1, <3>2 DEF Named, Distinct
  <2> QED  BY <2>1, <2>2, <2>3, Frame
<1>3. ASSUME poller' \in {"answer", "send"}  PROVE answer'.name = venue'[answer'.id].name
  <2>1. CASE PollFuturesOrder
    <3>1. /\ answer'.id = orders[i].id /\ answer'.name = orders[i].name /\ orders # <<>>
      BY <2>1 DEF PollFuturesOrder, Lists
    <3>2. i \in DOMAIN orders
      BY <3>1, Elements DEF Lists
    <3> QED  BY <1>1, <3>1, <3>2
  <2>2. CASE UNCHANGED <<poller, orders, i, answer>> \/ NoteExecution
    <3>1. poller \in {"answer", "send"} /\ answer' = answer
      BY <1>3, <2>2 DEF NoteExecution
    <3>2. answer.id \in Ids /\ answer.name = venue[answer.id].name
      BY <3>1 DEF Lists, Names, Fills
    <3> QED  BY <3>1, <3>2, VenueMoves
  <2> QED  BY <1>3, <2>1, <2>2, Frame
<1> QED  BY <1>2, <1>3

\* A polled fill bears the name of the order it is about.
LEMMA NamesQueued ==
  ASSUME Controls, Lists, Names, [Next]_vars
  PROVE  Named(temp)'
<1>0. \A n \in DOMAIN temp : temp[n].id \in Ids
  BY Elements DEF Fills
<1>1. \A n \in DOMAIN temp : temp[n].name = venue'[temp[n].id].name
  BY <1>0, NamedStays DEF Names
<1>2. temp \in Seq(Fills)
  BY DEF Lists
<1>3. CASE temp' = temp
  BY <1>1, <1>3 DEF Named
<1>4. CASE PushFill
  <2>1. temp' = Append(temp, answer) /\ poller = "send"
    BY <1>4 DEF PushFill
  <2>2. answer.id \in Ids /\ answer.name = venue[answer.id].name
    BY <2>1 DEF Lists, Names, Fills
  <2>3. answer.name = venue'[answer.id].name
    BY <2>2, VenueMoves
  <2>4. /\ Len(temp) \in Nat /\ DOMAIN temp = 1..Len(temp) /\ DOMAIN temp' = 1..(Len(temp) + 1)
        /\ \A n \in DOMAIN temp : temp'[n] = temp[n]
        /\ temp'[Len(temp) + 1] = answer
    BY <1>2, <2>1, AppendedIs
  <2> QED  BY <1>1, <2>3, <2>4 DEF Named
<1>5. CASE TakePolledFill
  <2>1. temp' = Tail(temp) /\ temp # <<>>
    BY <1>5 DEF TakePolledFill
  <2>2. \A n \in DOMAIN temp' : temp'[n] = temp[n + 1] /\ n + 1 \in DOMAIN temp
    BY <1>2, <2>1, TailIs
  <2> QED  BY <1>1, <2>2 DEF Named
<1> QED  BY <1>3, <1>4, <1>5, Frame

\* No step mixes up names.
LEMMA NamesPreserved ==
  ASSUME Controls, Lists, Names, [Next]_vars
  PROVE  Names'
<1>1. Distinct(deployed)' /\ Distinct(just_deployed)' /\ Distinct(orders)'
  BY NamesDeployed, NamesPosted, NamesPolled
<1>2. Named(deployed)' /\ Named(just_deployed)' /\ Named(orders)' /\ Named(temp)'
  BY NamesDeployed, NamesPosted, NamesPolled, NamesQueued
<1>3. /\ poller' \in {"answer", "send"} => answer'.name = venue'[answer'.id].name
      /\ main' = "post" => \A n \in DOMAIN just_deployed' : just_deployed'[n].name \notin target'
  BY NamesPosted, NamesPolled
<1> QED  BY <1>1, <1>2, <1>3 DEF Names
-----------------------------------------------------------------------------
(***************************************************************************)
(* The contract with the hub.                                              *)
(***************************************************************************)
\* The initial state has the shapes.
LEMMA InitKept == Init => Controls /\ Lists /\ Names
<1> SUFFICES ASSUME Init  PROVE Controls /\ Lists /\ Names
  OBVIOUS
<1>1. \A S : <<>> \in Seq(S) /\ Len(<<>>) = 0
  BY EmptySeq
<1>2. Controls
  <2>1. failures \in 0..(MAX_CONNECTION_FAILURES - 1) /\ attempts \in 0..MAX_CONNECTION_FAILURES
    BY DEF Init
  <2>2. hub_rx \in [key : 0..last_reported_fill_key, names : SUBSET OrderNames]
    BY DEF Init
  <2>3. /\ hubKey \in 0..last_reported_fill_key
        /\ last_reported_fill_key \in Nat /\ batches \in Nat /\ faults \in Nat
        /\ poisoned = FALSE /\ unseen = FALSE
        /\ target = {} /\ placed = {} /\ mishaps = {} /\ main = "select" /\ poller = "sleep"
    BY DEF Init
  <2> QED  BY <2>1, <2>2, <2>3 DEF Controls
<1>3. Lists
  <2>1. venue \in Seq(VenueOrders) /\ heard \in Seq(0..Qty) /\ Len(heard) = Len(venue)
    BY <1>1 DEF Init
  <2>2. /\ deployed \in Seq(Entries) /\ toClose \in Seq(Entries) /\ just_deployed \in Seq(Entries)
        /\ orders \in Seq(Entries)
    BY <1>1 DEF Init
  <2>3. temp \in Seq(Fills) /\ Len(temp) <= TempCap /\ fills_rx \in Seq(Reports) /\ Len(fills_rx) <= HubCap
    BY <1>1 DEF Init
  <2> QED  BY <2>1, <2>2, <2>3 DEF Init, Lists
<1>4. Names
  <2>1. DOMAIN deployed = {} /\ DOMAIN just_deployed = {} /\ DOMAIN orders = {} /\ DOMAIN temp = {}
    BY DEF Init
  <2>2. main # "post" /\ poller = "sleep"
    BY DEF Init
  <2> QED  BY <2>1, <2>2 DEF Names, Named, Distinct
<1> QED  BY <1>2, <1>3, <1>4

\* Whatever happens on the venue, the state keeps its shape and names stay with
\* their orders.
THEOREM ShapesAndNames == Spec => [](Controls /\ Lists /\ Names)
<1>1. Controls /\ Lists /\ Names /\ [Next]_vars => (Controls /\ Lists /\ Names)'
  BY ControlsPreserved, ListsPreserved, NamesPreserved
<1> QED  BY InitKept, <1>1, PTL DEF Spec

\* In terms of the contract every step of the runtime or the hub is one of
\* theirs, or none.
LEMMA StepKeepsContract ==
  ASSUME Controls, Lists, [Next]_vars
  PROVE  [Contract!Next]_(Contract!contractVars)
<1> USE DEF mainVars, pollerVars, hubVars, historyVars, Contract!contractVars
<1>1. CASE Poller \/ InfoUpdater \/ (\E id \in DOMAIN venue : VenueFill(id)) \/ UNCHANGED vars
  <2>1. UNCHANGED <<last_reported_fill_key, fills_rx, hubKey, hub_rx, placed>>
    BY <1>1 DEF Poller, PollerWakes, PollFuturesOrder, PollFails, NothingNew, NoteExecution,
                PollerPanics, PushFill, InfoUpdater, InfoUpdateFails, VenueFill, vars
  <2> QED  BY <2>1
<1>2. CASE Close \/ Post \/ TakePolledFill \/ Drained \/ SeeChange
  <2>1. UNCHANGED <<last_reported_fill_key, fills_rx, hubKey, hub_rx, placed>>
    BY <1>2 DEF Close, StartClosing, StopClosing, AllClosed, CloseOrder, NothingToClose, CloseFails,
                Post, PostFuturesOrder, PostFails, Posting, Swap, TakePolledFill, Drained, SeeChange
  <2> QED  BY <2>1
<1>3. CASE HubTakesReport
  <2>1. Contract!TakeReport
    BY <1>3 DEF HubTakesReport, Contract!TakeReport
  <2> QED  BY <2>1 DEF Contract!Next
<1>4. CASE HubSendsBatch
  <2>1. PICK names \in SUBSET OrderNames : hub_rx' = [key |-> hubKey, names |-> names]
    BY <1>4 DEF HubSendsBatch
  <2>2. UNCHANGED <<last_reported_fill_key, fills_rx, hubKey, placed>>
    BY <1>4 DEF HubSendsBatch
  <2>3. Contract!SendBatch
    BY <2>1, <2>2 DEF Contract!SendBatch
  <2> QED  BY <2>3 DEF Contract!Next
<1>5. CASE ReportFill
  <2>1. inHand.name \in placed /\ inHand.name \in OrderNames
    BY <1>5 DEF ReportFill, Lists, Fills, Controls
  <2>2. Contract!Report(inHand.name)
    BY <1>5, <2>1 DEF ReportFill, Contract!Report
  <2> QED  BY <2>1, <2>2 DEF Contract!Next
<1>6. CASE Borrow
  <2>1. UNCHANGED <<last_reported_fill_key, fills_rx, hubKey, hub_rx>>
    BY <1>6 DEF Borrow
  <2>2. CASE CurrentBatch
    <3>1. Contract!Accept
      BY <1>6, <2>1, <2>2 DEF Borrow, CurrentBatch, Contract!Accept
    <3> QED  BY <3>1 DEF Contract!Next
  <2>3. CASE ~CurrentBatch
    BY <1>6, <2>1, <2>3 DEF Borrow
  <2> QED  BY <2>2, <2>3
<1> QED
  BY <1>1, <1>2, <1>3, <1>4, <1>5, <1>6 DEF Next, Environment, ServeFills

\* The runtime keeps its contract with the hub whatever the venue does: it
\* numbers its reports, reports only orders of batches it accepted, and accepts
\* a batch only under the number of its last report.
THEOREM RuntimeKeepsContract == Spec => KeepsContract
<1>1. Init => Contract!Init
  BY DEF Init, Contract!Init
<1>2. Spec => Contract!Spec
  BY ShapesAndNames, StepKeepsContract, <1>1, PTL DEF Spec, Contract!Spec
<1> QED  BY <1>2 DEF KeepsContract
-----------------------------------------------------------------------------
(***************************************************************************)
(* What the poller has told.  As long as it mixed up no entries, an entry  *)
(* says of its order what was last told, and so does what is left of the   *)
(* poller's copy; nothing that is being posted is polled yet.              *)
(***************************************************************************)
SaysHeard(e) == e.filled = heard[e.id]

NotPolled(e) == heard[e.id] = 0 /\ e.filled = 0 /\ e.id \notin IdsIn(deployed) \union IdsIn(orders)

HeardIsWritten ==
  /\ \A n \in DOMAIN deployed : SaysHeard(deployed[n])
  /\ main = "post" => \A n \in DOMAIN just_deployed : NotPolled(just_deployed[n])
  /\ poller \in {"ask", "answer"} => \A n \in DOMAIN orders : n >= i => SaysHeard(orders[n])
  /\ poller = "send" => \A n \in DOMAIN orders : n > i => SaysHeard(orders[n])

\* Nothing is told before it happens, and what is asked last is the latest.
ToldUpToNow ==
  /\ \A id \in Ids : heard[id] <= venue[id].filled
  /\ poller \in {"answer", "send"} => answer.executed <= venue[answer.id].filled
  /\ poller = "answer" => heard[answer.id] <= answer.executed

HistoryInv ==
  /\ Controls /\ Lists /\ Names
  /\ ToldUpToNow
  /\ "misplaced" \notin mishaps => HeardIsWritten

\* What is told of an order changes only when the poller notes it.
LEMMA HeardMoves ==
  ASSUME Lists, [Next]_vars
  PROVE  /\ Ids \subseteq Ids'
         /\ \A id \in Ids : \/ heard'[id] = heard[id]
                            \/ NoteExecution /\ id = answer.id /\ heard'[id] = answer.executed
         /\ \A id \in Ids' : id \in Ids \/ (heard'[id] = 0 /\ venue'[id].filled = 0)
<1>0. Ids \subseteq Ids' /\ Len(venue) \in Nat
  BY VenueMoves, Elements
<1>1. CASE heard' = heard /\ Ids' = Ids
  BY <1>1
<1>2. CASE NoteExecution
  <2>1. Ids' = Ids
    BY <1>2 DEF NoteExecution, Ids
  <2> QED  BY <1>2, <2>1, NotedIs
<1>3. ASSUME NEW n \in OrderNames, Accepted(n)
      PROVE  /\ \A id \in Ids : heard'[id] = heard[id]
             /\ \A id \in Ids' : id \in Ids \/ (heard'[id] = 0 /\ venue'[id].filled = 0)
  <2>1. /\ Len(venue') = Len(venue) + 1 /\ \A id \in Ids : heard'[id] = heard[id]
        /\ heard'[Len(venue) + 1] = 0
        /\ venue'[Len(venue) + 1] = [name |-> n, filled |-> 0, status |-> "NEW"]
    BY <1>3, AcceptedIs
  <2>2. venue'[Len(venue) + 1].filled = 0
    BY <2>1
  <2>3. \A id \in Ids' : id \in Ids \/ id = Len(venue) + 1
    BY <1>0, <2>1 DEF Ids
  <2> QED  BY <2>1, <2>2, <2>3
<1>4. CASE \E n \in OrderNames : Accepted(n)
  BY <1>0, <1>3, <1>4
<1>5. CASE heard' = heard /\ \E id \in DOMAIN venue : VenueFill(id)
  <2>1. Len(venue') = Len(venue)
    BY <1>5, VenueFillIs, Elements
  <2> QED  BY <1>1, <1>5, <2>1 DEF Ids
<1>6. CASE heard' = heard /\ (CloseOrder \/ CloseFails) /\ Cancel(Head(toClose).id)
  <2>1. toClose # <<>>
    BY <1>6 DEF CloseOrder, CloseFails
  <2>2. Head(toClose) \in Entries
    BY <2>1, TailIs, Elements DEF Lists
  <2>3. Head(toClose).id \in Ids
    BY <2>2 DEF Entries
  <2>4. Len(venue') = Len(venue)
    BY <1>6, <2>3, CancelIs
  <2> QED  BY <1>1, <1>6, <2>4 DEF Ids
<1>7. CASE UNCHANGED <<venue, heard>>
  BY <1>1, <1>7 DEF Ids
<1> QED  BY <1>2, <1>4, <1>5, <1>6, <1>7, Frame

\* What the poller asked last is the latest: a fill or a post later changes
\* nothing that was told.
LEMMA ToldUpToNowPreserved ==
  ASSUME Controls, Lists, Names, ToldUpToNow, [Next]_vars
  PROVE  ToldUpToNow'
<1>0. /\ \A id \in Ids : heard[id] \in Nat /\ venue[id].filled \in Nat
      /\ Lists'
  BY Elements, ListsPreserved DEF VenueOrders
<1>1. \A id \in Ids' : heard'[id] \in Nat /\ venue'[id].filled \in Nat
  <2>1. /\ \A id \in 1..Len(venue') : venue'[id] \in VenueOrders
        /\ \A id \in 1..Len(heard') : heard'[id] \in 0..Qty
        /\ Len(heard') = Len(venue')
    BY <1>0, ElementOfSeq DEF Lists
  <2> QED  BY <2>1 DEF Ids, VenueOrders
<1>2. poller \in {"answer", "send"} =>
        /\ answer.id \in Ids /\ answer.executed \in Nat
        /\ answer.executed <= venue[answer.id].filled
  BY DEF Lists, Fills, ToldUpToNow
<1>3. \A id \in Ids : venue[id].filled <= venue'[id].filled
  BY VenueMoves
<1>4. \A id \in Ids' : heard'[id] <= venue'[id].filled
  <2> SUFFICES ASSUME NEW id \in Ids'  PROVE heard'[id] <= venue'[id].filled
    OBVIOUS
  <2>1. CASE id \in Ids /\ heard'[id] = heard[id]
    BY <1>0, <1>1, <1>3, <2>1 DEF ToldUpToNow
  <2>2. CASE id \in Ids /\ NoteExecution /\ id = answer.id /\ heard'[id] = answer.executed
    <3>1. poller = "answer"
      BY <2>2 DEF NoteExecution
    <3> QED  BY <1>0, <1>1, <1>2, <1>3, <2>2, <3>1
  <2>3. CASE heard'[id] = 0 /\ venue'[id].filled = 0
    BY <2>3
  <2> QED  BY <2>1, <2>2, <2>3, HeardMoves
<1>5. ASSUME poller' \in {"answer", "send"}
      PROVE  /\ answer'.executed <= venue'[answer'.id].filled
             /\ poller' = "answer" => heard'[answer'.id] <= answer'.executed
  <2>1. CASE PollFuturesOrder
    <3> DEFINE o == orders[i]
    <3>1. /\ answer' = [id |-> o.id, name |-> o.name,
                        executed |-> venue[o.id].filled, status |-> venue[o.id].status]
          /\ orders # <<>> /\ UNCHANGED <<venue, heard>>
      BY <2>1 DEF PollFuturesOrder, Lists, historyVars
    <3>2. i \in DOMAIN orders
      BY <3>1, Elements DEF Lists
    <3>3. o.id \in Ids
      BY <3>2, Elements DEF Entries
    <3>4. answer'.id = o.id /\ answer'.executed = venue[o.id].filled
      BY <3>1
    <3>5. heard[o.id] <= venue[o.id].filled
      BY <3>3 DEF ToldUpToNow
    <3> HIDE DEF o
    <3> QED  BY <1>0, <3>1, <3>3, <3>4, <3>5
  <2>2. CASE NoteExecution
    <3>1. poller' = "send" /\ UNCHANGED <<venue, answer>> /\ poller = "answer"
      BY <2>2 DEF NoteExecution
    <3> QED  BY <1>2, <3>1
  <2>3. CASE UNCHANGED <<poller, orders, i, answer>> /\ ~NoteExecution
    <3>1. heard'[answer.id] = heard[answer.id]
      BY <1>2, <1>5, <2>3, HeardMoves
    <3>2. answer.executed <= venue'[answer.id].filled
      <4>1. answer.id \in Ids /\ answer.id \in Ids'
        BY <1>2, <1>5, <2>3, VenueMoves
      <4>2. venue[answer.id].filled \in Nat /\ venue'[answer.id].filled \in Nat
        BY <1>0, <1>1, <4>1
      <4> QED  BY <1>2, <1>3, <1>5, <2>3, <4>1, <4>2
    <3> QED  BY <1>5, <2>3, <3>1, <3>2 DEF ToldUpToNow
  <2> QED  BY <1>5, <2>1, <2>2, <2>3, Frame
<1> QED  BY <1>4, <1>5 DEF ToldUpToNow

\* An order has one entry in a list, as its name has.
LEMMA OneEntryEach ==
  ASSUME NEW q, Named(q), Distinct(q)
  PROVE  \A m, n \in DOMAIN q : q[m].id = q[n].id => m = n
BY DEF Named, Distinct

\* Where orders come into the lists from.
LEMMA IdsMove ==
  ASSUME Controls, Lists, Names, [Next]_vars
  PROVE  /\ IdsIn(orders)' \subseteq IdsIn(orders) \union IdsIn(deployed)
         /\ main' = "post" => IdsIn(deployed)' \subseteq IdsIn(deployed)
         /\ NoteExecution => IdsIn(deployed)' = IdsIn(deployed)
<1>1. IdsIn(orders)' \subseteq IdsIn(orders) \union IdsIn(deployed)
  <2>1. CASE orders' = orders
    BY <2>1 DEF IdsIn
  <2>2. CASE orders' = <<>>
    BY <2>2 DEF IdsIn
  <2>3. CASE PollerWakes
    <3>1. orders' \in Shuffles(deployed) /\ deployed \in Seq(Entries)
      BY <2>3 DEF PollerWakes, Lists
    <3>2. \A n \in DOMAIN orders' : \E m \in DOMAIN deployed : orders'[n] = deployed[m]
      BY <3>1, ShuffledIs
    <3> QED  BY <3>2 DEF IdsIn
  <2> QED  BY <2>1, <2>2, <2>3, Frame
<1>2. NoteExecution => IdsIn(deployed)' = IdsIn(deployed)
  <2> SUFFICES ASSUME NoteExecution  PROVE IdsIn(deployed)' = IdsIn(deployed)
    OBVIOUS
  <2>1. /\ DOMAIN deployed' = DOMAIN deployed
        /\ deployed'[i] = [id |-> deployed[i].id, name |-> deployed[i].name, filled |-> answer.executed]
        /\ \A n \in DOMAIN deployed : n # i => deployed'[n] = deployed[n]
    BY NotedIs
  <2>2. deployed'[i].id = deployed[i].id
    BY <2>1
  <2>3. \A n \in DOMAIN deployed : deployed'[n].id = deployed[n].id
    BY <2>1, <2>2
  <2> QED  BY <2>1, <2>3 DEF IdsIn
<1>3. ASSUME main' = "post"  PROVE IdsIn(deployed)' \subseteq IdsIn(deployed)
  <2>1. CASE deployed' = deployed
    BY <2>1 DEF IdsIn
  <2> QED  BY <1>2, <1>3, <2>1, DeployedNext
<1> QED  BY <1>1, <1>2, <1>3

\* The deployed orders say what was told of them.
LEMMA DeployedSays ==
  ASSUME Controls, Lists, Names, HeardIsWritten, [Next]_vars, "misplaced" \notin mishaps'
  PROVE  \A n \in DOMAIN deployed' : SaysHeard(deployed[n])'
<1>0. /\ \A n \in DOMAIN deployed : deployed[n].id \in Ids /\ deployed[n].filled = heard[deployed[n].id]
      /\ \A n \in DOMAIN just_deployed : just_deployed[n].id \in Ids
      /\ \A m, n \in DOMAIN deployed : deployed[m].id = deployed[n].id => m = n
  <2>1. \A n \in DOMAIN deployed : deployed[n].id \in Ids /\ deployed[n].filled = heard[deployed[n].id]
    BY Elements DEF Entries, HeardIsWritten, SaysHeard
  <2>2. \A n \in DOMAIN just_deployed : just_deployed[n].id \in Ids
    BY Elements DEF Entries
  <2>3. \A m, n \in DOMAIN deployed : deployed[m].id = deployed[n].id => m = n
    BY OneEntryEach DEF Names
  <2> QED  BY <2>1, <2>2, <2>3
<1>1. CASE NoteExecution
  <2>1. /\ i \in DOMAIN deployed /\ DOMAIN deployed' = DOMAIN deployed
        /\ deployed'[i] = [id |-> deployed[i].id, name |-> deployed[i].name, filled |-> answer.executed]
        /\ \A n \in DOMAIN deployed : n # i => deployed'[n] = deployed[n]
        /\ heard'[answer.id] = answer.executed
        /\ \A id \in Ids : id # answer.id => heard'[id] = heard[id]
    BY <1>1, NotedIs
  <2>2. deployed[i].id = answer.id
    BY <1>1 DEF NoteExecution, Slot
  <2>3. deployed'[i].id = answer.id /\ deployed'[i].filled = answer.executed
    BY <2>1, <2>2
  <2> QED  BY <1>0, <2>1, <2>2, <2>3 DEF SaysHeard
<1>2. CASE ~NoteExecution
  <2>0. \A id \in Ids : heard'[id] = heard[id]
    BY <1>2, HeardMoves
  <2>1. CASE deployed' = deployed
    BY <1>0, <2>0, <2>1 DEF SaysHeard
  <2>2. CASE deployed' = Remaining(Head(temp))
    <3> DEFINE f == Head(temp)
               r == Remaining(f)
    <3>1. deployed \in Seq(Entries) /\ Distinct(deployed)
      BY DEF Lists, Names
    <3>2. \A n \in DOMAIN r : \E m \in DOMAIN deployed : r[n] = deployed[m]
      <4> HIDE DEF f
      <4> QED  BY <3>1, RemainingIs
    <3>3. deployed' = r
      BY <2>2
    <3> HIDE DEF r, f
    <3> QED  BY <1>0, <2>0, <3>2, <3>3 DEF SaysHeard
  <2>3. CASE deployed' = just_deployed /\ main = "post"
    BY <1>0, <2>0, <2>3 DEF SaysHeard, HeardIsWritten, NotPolled
  <2> QED  BY <1>2, <2>1, <2>2, <2>3, DeployedNext
<1> QED  BY <1>1, <1>2

\* What is being posted is not polled before it is deployed.
LEMMA PostedUnpolled ==
  ASSUME Controls, Lists, Names, HeardIsWritten, [Next]_vars, main' = "post"
  PROVE  \A n \in DOMAIN just_deployed' : NotPolled(just_deployed[n])'
<1>0. /\ \A n \in DOMAIN just_deployed : just_deployed[n].id \in Ids
      /\ IdsIn(deployed) \subseteq Ids /\ IdsIn(orders) \subseteq Ids
      /\ Len(venue) \in Nat
  BY Elements DEF Entries, IdsIn
<1>1. CASE just_deployed' = <<>>
  <2>1. DOMAIN just_deployed' = {}
    BY <1>1
  <2> QED  BY <2>1
<1>2. CASE just_deployed' = just_deployed /\ main = "post"
  <2>1. \A n \in DOMAIN just_deployed :
          /\ heard[just_deployed[n].id] = 0 /\ just_deployed[n].filled = 0
          /\ just_deployed[n].id \notin IdsIn(deployed) /\ just_deployed[n].id \notin IdsIn(orders)
    BY <1>2 DEF HeardIsWritten, NotPolled
  <2>2. NoteExecution => answer.id \in IdsIn(orders)
    <3>1. NoteExecution => poller = "answer"
      BY DEF NoteExecution
    <3>2. poller = "answer" => orders # <<>> /\ answer.id = orders[i].id
      BY DEF Lists
    <3>3. orders # <<>> => i \in DOMAIN orders
      BY Elements DEF Lists
    <3> QED  BY <3>1, <3>2, <3>3 DEF IdsIn
  <2>3. \A n \in DOMAIN just_deployed : heard'[just_deployed[n].id] = 0
    BY <1>0, <2>1, <2>2, HeardMoves
  <2> QED  BY <1>2, <2>1, <2>3, IdsMove DEF NotPolled
<1>3. ASSUME NEW p \in OrderNames, PostFuturesOrder(p)
      PROVE  \A n \in DOMAIN just_deployed' : NotPolled(just_deployed[n])'
  <2> DEFINE e == [id |-> Len(venue) + 1, name |-> p, filled |-> 0]
             k == Len(just_deployed)
  <2>1. /\ main = "post" /\ just_deployed' = Append(just_deployed, e) /\ Accepted(p)
        /\ UNCHANGED <<deployed, orders>>
    BY <1>3 DEF PostFuturesOrder, Posting, pollerVars
  <2>2. heard'[Len(venue) + 1] = 0 /\ \A id \in Ids : heard'[id] = heard[id]
    BY <2>1, AcceptedIs
  <2>3. e.id = Len(venue) + 1 /\ e.filled = 0 /\ Len(venue) + 1 \notin Ids
    BY <1>0 DEF Ids
  <2>4. just_deployed \in Seq(Entries)
    BY DEF Lists
  <2>5. \A n \in DOMAIN just_deployed : NotPolled(just_deployed[n])
    BY <2>1 DEF HeardIsWritten
  <2> HIDE DEF e
  <2>6. /\ k \in Nat /\ DOMAIN just_deployed = 1..k /\ DOMAIN just_deployed' = 1..(k + 1)
        /\ \A m \in 1..k : just_deployed'[m] = just_deployed[m]
        /\ just_deployed'[k + 1] = e
    BY <2>1, <2>4, AppendedIs
  <2>7. IdsIn(deployed)' = IdsIn(deployed) /\ IdsIn(orders)' = IdsIn(orders)
    BY <2>1 DEF IdsIn
  <2>8. ASSUME NEW m \in 1..(k + 1)  PROVE NotPolled(just_deployed[m])'
    <3>1. CASE m \in 1..k
      BY <1>0, <2>2, <2>5, <2>6, <2>7, <3>1 DEF NotPolled
    <3>2. CASE m = k + 1
      BY <1>0, <2>2, <2>3, <2>6, <2>7, <3>2 DEF NotPolled
    <3> QED  BY <2>6, <3>1, <3>2
  <2> QED  BY <2>6, <2>8
<1> QED  BY <1>1, <1>2, <1>3, PostTurns, Frame

\* What is left of the poller's copy says what was told.
LEMMA CopySays ==
  ASSUME Controls, Lists, Names, HeardIsWritten, [Next]_vars, "misplaced" \notin mishaps'
  PROVE  /\ poller' \in {"ask", "answer"} => \A n \in DOMAIN orders' : n >= i' => SaysHeard(orders[n])'
         /\ poller' = "send" => \A n \in DOMAIN orders' : n > i' => SaysHeard(orders[n])'
<1>0. /\ \A n \in DOMAIN orders : orders[n].id \in Ids
      /\ DOMAIN orders \subseteq Nat /\ i \in Nat
  <2>1. \A n \in DOMAIN orders : orders[n].id \in Ids
    BY Elements DEF Entries
  <2>2. DOMAIN orders = 1..Len(orders)
    BY Elements
  <2>3. i \in Nat
    BY DEF Lists
  <2> QED  BY <2>1, <2>2, <2>3
<1>1. CASE UNCHANGED <<poller, orders, i, answer>>
  <2>1. ~NoteExecution
    BY <1>1 DEF NoteExecution
  <2>2. \A id \in Ids : heard'[id] = heard[id]
    BY <2>1, HeardMoves
  <2> QED  BY <1>0, <1>1, <2>2 DEF HeardIsWritten, SaysHeard
<1>2. CASE PollerWakes
  <2>1. /\ orders' \in Shuffles(deployed) /\ deployed \in Seq(Entries) /\ poller' = "ask"
        /\ heard' = heard
    BY <1>2 DEF PollerWakes, Lists, historyVars
  <2>2. \A n \in DOMAIN orders' : \E m \in DOMAIN deployed : orders'[n] = deployed[m]
    BY <2>1, ShuffledIs
  <2> QED  BY <2>1, <2>2 DEF HeardIsWritten, SaysHeard
<1>3. CASE PollFuturesOrder
  <2>1. UNCHANGED <<heard, orders, i>> /\ poller = "ask" /\ poller' = "answer"
    BY <1>3 DEF PollFuturesOrder, historyVars
  <2> QED  BY <2>1 DEF HeardIsWritten, SaysHeard
<1>4. CASE NoteExecution
  <2>1. /\ UNCHANGED <<orders, i>> /\ poller = "answer" /\ poller' = "send"
    BY <1>4 DEF NoteExecution
  <2>2. \A id \in Ids : id # answer.id => heard'[id] = heard[id]
    BY <1>4, NotedIs
  <2>3. orders # <<>> /\ answer.id = orders[i].id
    BY <2>1 DEF Lists
  <2>4. i \in DOMAIN orders
    BY <2>3, Elements DEF Lists
  <2>5. \A m, n \in DOMAIN orders : orders[m].id = orders[n].id => m = n
    BY OneEntryEach DEF Names
  <2>6. \A n \in DOMAIN orders : n > i => orders[n].id # answer.id /\ SaysHeard(orders[n])
    <3>1. \A n \in DOMAIN orders : n > i => n # i /\ n >= i
      BY <1>0
    <3> QED  BY <2>1, <2>3, <2>4, <2>5, <3>1 DEF HeardIsWritten
  <2> QED  BY <1>0, <2>1, <2>2, <2>6 DEF SaysHeard
<1>5. CASE PollFails \/ NothingNew \/ PushFill
  <2>1. PollNext /\ heard' = heard /\ poller \in {"ask", "answer", "send"}
    BY <1>5 DEF PollFails, NothingNew, PushFill, historyVars
  <2>2. CASE poller' = "ask" /\ i' = i + 1 /\ orders' = orders
    <3>1. \A n \in DOMAIN orders : n >= i + 1 => n > i /\ n >= i
      BY <1>0
    <3>2. \A n \in DOMAIN orders : n >= i + 1 => SaysHeard(orders[n])
      BY <2>1, <3>1 DEF HeardIsWritten
    <3> QED  BY <2>1, <2>2, <3>2 DEF SaysHeard
  <2>3. CASE poller' = "sleep"
    BY <2>3
  <2> QED  BY <2>1, <2>2, <2>3, PollNextTurns
<1>6. CASE PollerPanics
  BY <1>6 DEF PollerPanics
<1> QED
  BY <1>1, <1>2, <1>3, <1>4, <1>5, <1>6, Frame DEF Poller

\* At first nothing was told.
LEMMA InitHistory == Init => HistoryInv
<1> SUFFICES ASSUME Init  PROVE HistoryInv
  OBVIOUS
<1>1. /\ DOMAIN deployed = {} /\ DOMAIN orders = {} /\ Ids = {}
      /\ poller = "sleep" /\ main = "select"
  BY EmptySeq DEF Init, Ids
<1>2. ToldUpToNow
  BY <1>1 DEF ToldUpToNow
<1>3. HeardIsWritten
  BY <1>1 DEF HeardIsWritten
<1> QED  BY <1>2, <1>3, InitKept DEF HistoryInv

\* Every reachable state satisfies the strengthening.
THEOREM HistoryInvariant == Spec => []HistoryInv
<1>1. HistoryInv /\ [Next]_vars => HistoryInv'
  <2> SUFFICES ASSUME HistoryInv, [Next]_vars  PROVE HistoryInv'
    OBVIOUS
  <2>1. /\ Controls /\ Lists /\ Names /\ ToldUpToNow
        /\ "misplaced" \notin mishaps => HeardIsWritten
    BY DEF HistoryInv
  <2>2. Controls' /\ Lists' /\ Names' /\ ToldUpToNow'
    BY <2>1, ControlsPreserved, ListsPreserved, NamesPreserved, ToldUpToNowPreserved
  <2>3. ASSUME "misplaced" \notin mishaps'  PROVE HeardIsWritten'
    <3>1. HeardIsWritten
      BY <2>1, <2>3, Frame
    <3>2. \A n \in DOMAIN deployed' : SaysHeard(deployed[n])'
      BY <2>1, <2>3, <3>1, DeployedSays
    <3>3. main' = "post" => \A n \in DOMAIN just_deployed' : NotPolled(just_deployed[n])'
      BY <2>1, <3>1, PostedUnpolled
    <3>4. /\ poller' \in {"ask", "answer"} => \A n \in DOMAIN orders' : n >= i' => SaysHeard(orders[n])'
          /\ poller' = "send" => \A n \in DOMAIN orders' : n > i' => SaysHeard(orders[n])'
      BY <2>1, <2>3, <3>1, CopySays
    <3> QED  BY <3>2, <3>3, <3>4 DEF HeardIsWritten
  <2> QED  BY <2>2, <2>3 DEF HistoryInv
<1> QED  BY InitHistory, <1>1, PTL DEF Spec

\* The poller tells an execution of an order once, and each time more than the
\* last time, as long as it never wrote into another order's entry: for any
\* number of orders and any interleaving with the main loop replacing the list.
THEOREM NoExecutionToldTwiceTheorem == Spec => NoExecutionToldTwice
<1> DEFINE TellsMore ==
             poller = "answer" /\ poller' = "send" /\ "misplaced" \notin mishaps
               => answer.executed > heard[answer.id]
<1>1. ASSUME HistoryInv, [Next]_vars  PROVE [TellsMore]_vars
  <2> SUFFICES ASSUME poller = "answer", poller' = "send", "misplaced" \notin mishaps
               PROVE  answer.executed > heard[answer.id]
    OBVIOUS
  <2>0. Controls /\ Lists /\ Names /\ ToldUpToNow /\ HeardIsWritten
    BY <1>1 DEF HistoryInv
  <2>1. NoteExecution
    <3>1. ~UNCHANGED <<poller, orders, i, answer>>
      OBVIOUS
    <3>2. PollFuturesOrder => poller = "ask"
      BY DEF PollFuturesOrder
    <3> QED  BY <1>1, <3>1, <3>2, Frame
  <2>2. orders # <<>> /\ answer \in Fills /\ answer.id = orders[i].id
    BY <2>0 DEF Lists
  <2>3. i \in DOMAIN orders /\ i \in Nat
    BY <2>0, <2>2, Elements DEF Lists
  <2>4. orders[i].filled = heard[answer.id]
    BY <2>0, <2>2, <2>3 DEF HeardIsWritten, SaysHeard
  <2>5. answer.executed # heard[answer.id]
    BY <2>1, <2>4 DEF NoteExecution, HasNews
  <2>6. answer.id \in Ids /\ answer.executed \in Nat
    BY <2>2 DEF Fills
  <2>7. heard[answer.id] \in Nat
    BY <2>0, <2>6, Elements
  <2>8. heard[answer.id] <= answer.executed
    BY <2>0 DEF ToldUpToNow
  <2> QED  BY <2>5, <2>6, <2>7, <2>8
<1>2. Spec => [][TellsMore]_vars
  BY HistoryInvariant, <1>1, PTL DEF Spec
<1> QED  BY <1>2 DEF NoExecutionToldTwice
-----------------------------------------------------------------------------
(***************************************************************************)
(* No order is forgotten.  What is open on the venue is deployed or being  *)
(* posted: the close loop leaves none of the deployed orders open, and a   *)
(* filled order leaves the list by its own name, once.                     *)
(***************************************************************************)
Canceled(id) == venue[id].status = "CANCELED"
Filled(id) == venue[id].status = "FILLED"

\* What the venue says is filled is filled in full, and stays so.
FilledInFull ==
  /\ \A id \in Ids : Filled(id) => venue[id].filled = Qty
  /\ poller \in {"answer", "send"} /\ answer.status = "FILLED" => Filled(answer.id) /\ answer.executed = Qty
  /\ \A n \in DOMAIN temp : temp[n].status = "FILLED" => Filled(temp[n].id)

ClosesAll ==
  /\ main = "closing" => \A id \in IdsIn(deployed) : Canceled(id) \/ id \in IdsIn(toClose)
  /\ main = "post" => \A id \in IdsIn(deployed) : Canceled(id)

OpenOnesTracked == \A id \in Ids : venue[id].status = "NEW" => id \in Tracked

\* The fill that will take an order out of the list comes once, while it is there.
LeavesOnce ==
  /\ \A n \in DOMAIN temp : temp[n].status = "FILLED" =>
       temp[n].id \in IdsIn(deployed) /\ heard[temp[n].id] = Qty
  /\ \A m, n \in DOMAIN temp :
       temp[m].status = "FILLED" /\ temp[n].status = "FILLED" /\ temp[m].id = temp[n].id => m = n
  /\ poller = "send" /\ answer.status = "FILLED" =>
       /\ answer.id \in IdsIn(deployed) /\ heard[answer.id] = Qty
       /\ \A n \in DOMAIN temp : temp[n].status = "FILLED" => temp[n].id # answer.id

NothingWrong == mishaps \subseteq {"dropped"}

TrackedInv ==
  /\ HistoryInv
  /\ FilledInFull
  /\ NothingWrong => ClosesAll /\ OpenOnesTracked /\ LeavesOnce

\* A post or a fill makes an order; only the fill of all of it says "FILLED".
LEMMA StatusMoves ==
  ASSUME Controls, Lists, [Next]_vars
  PROVE  \A id \in Ids' : \/ id \in Ids /\ venue'[id] = venue[id]
                          \/ Filled(id)' => venue'[id].filled = Qty
<1>0. Len(venue) \in Nat
  BY Elements
<1>1. CASE UNCHANGED venue
  BY <1>1 DEF Ids
<1>2. ASSUME NEW n \in OrderNames, Accepted(n)
      PROVE  \A id \in Ids' : (id \in Ids /\ venue'[id] = venue[id]) \/ venue'[id].status = "NEW"
  <2>1. /\ Len(venue') = Len(venue) + 1 /\ \A id \in Ids : venue'[id] = venue[id]
        /\ venue'[Len(venue) + 1] = [name |-> n, filled |-> 0, status |-> "NEW"]
    BY <1>2, AcceptedIs
  <2>2. venue'[Len(venue) + 1].status = "NEW"
    BY <2>1
  <2>3. \A id \in Ids' : id \in Ids \/ id = Len(venue) + 1
    BY <1>0, <2>1 DEF Ids
  <2> QED  BY <2>1, <2>2, <2>3
<1>3. ASSUME NEW id \in DOMAIN venue, VenueFill(id)
      PROVE  \A k \in Ids' : (k \in Ids /\ venue'[k] = venue[k]) \/ (Filled(k)' => venue'[k].filled = Qty)
  <2>1. /\ id \in Ids /\ Len(venue') = Len(venue) /\ \A n \in Ids : n # id => venue'[n] = venue[n]
        /\ venue'[id].status = IF venue'[id].filled = Qty THEN "FILLED" ELSE "NEW"
    BY <1>3, VenueFillIs, Elements
  <2>2. Ids' = Ids
    BY <2>1 DEF Ids
  <2> QED  BY <2>1, <2>2 DEF Filled
<1>4. ASSUME NEW id \in Ids, Cancel(id)
      PROVE  \A k \in Ids' : (k \in Ids /\ venue'[k] = venue[k]) \/ (Filled(k)' => venue'[k].filled = Qty)
  <2>1. /\ Len(venue') = Len(venue) /\ \A n \in Ids : n # id => venue'[n] = venue[n]
        /\ venue'[id].status = "CANCELED"
    BY <1>4, CancelIs
  <2>2. Ids' = Ids
    BY <2>1 DEF Ids
  <2> QED  BY <2>1, <2>2 DEF Filled
<1>5. CASE \E n \in OrderNames : Accepted(n)
  BY <1>2, <1>5 DEF Filled
<1>6. CASE \E id \in DOMAIN venue : VenueFill(id)
  BY <1>3, <1>6
<1>7. CASE (CloseOrder \/ CloseFails) /\ Cancel(Head(toClose).id)
  <2>1. toClose # <<>>
    BY <1>7 DEF CloseOrder, CloseFails
  <2>2. Head(toClose) \in Entries
    BY <2>1, TailIs, Elements DEF Lists
  <2>3. Head(toClose).id \in Ids
    BY <2>2 DEF Entries
  <2> QED  BY <1>4, <1>7, <2>3
<1>8. NoteExecution => UNCHANGED venue
  BY DEF NoteExecution
<1> QED  BY <1>1, <1>5, <1>6, <1>7, <1>8, Frame

\* What is polled stays filled.
LEMMA FilledInFullPreserved ==
  ASSUME Controls, Lists, Names, FilledInFull, [Next]_vars
  PROVE  FilledInFull'
<1>0. \A id \in Ids : Filled(id) => Filled(id)'
  BY VenueMoves DEF Filled
<1>1. \A id \in Ids' : Filled(id)' => venue'[id].filled = Qty
  BY StatusMoves DEF FilledInFull, Filled
<1>2. poller \in {"answer", "send"} => answer \in Fills /\ answer.id \in Ids
  BY DEF Lists, Fills
<1>3. ASSUME poller' \in {"answer", "send"}, answer'.status = "FILLED"
      PROVE  Filled(answer.id)' /\ answer'.executed = Qty
  <2>1. CASE PollFuturesOrder
    <3> DEFINE o == orders[i]
    <3>1. /\ answer' = [id |-> o.id, name |-> o.name,
                        executed |-> venue[o.id].filled, status |-> venue[o.id].status]
          /\ orders # <<>> /\ UNCHANGED venue
      BY <2>1 DEF PollFuturesOrder, Lists
    <3>2. i \in DOMAIN orders
      BY <3>1, Elements DEF Lists
    <3>3. o.id \in Ids
      BY <3>2, Elements DEF Entries
    <3>4. answer'.id = o.id /\ answer'.executed = venue[o.id].filled /\ answer'.status = venue[o.id].status
      BY <3>1
    <3> HIDE DEF o
    <3> QED  BY <1>3, <3>1, <3>3, <3>4 DEF Filled, FilledInFull
  <2>2. CASE UNCHANGED <<poller, orders, i, answer>> \/ NoteExecution
    <3>1. poller \in {"answer", "send"} /\ answer' = answer
      BY <1>3, <2>2 DEF NoteExecution
    <3>2. Filled(answer.id) /\ answer.executed = Qty
      BY <1>3, <3>1 DEF FilledInFull
    <3> QED  BY <1>2, <3>1, <3>2, VenueMoves DEF Filled
  <2> QED  BY <1>3, <2>1, <2>2, Frame
<1>4. \A n \in DOMAIN temp' : temp'[n].status = "FILLED" => Filled(temp[n].id)'
  <2>0. \A n \in DOMAIN temp : temp[n].status = "FILLED" => temp[n].id \in Ids /\ Filled(temp[n].id)
    BY Elements DEF FilledInFull, Fills
  <2>1. temp \in Seq(Fills)
    BY DEF Lists
  <2>2. CASE temp' = temp
    BY <1>0, <2>0, <2>2 DEF Filled
  <2>3. CASE PushFill
    <3>1. temp' = Append(temp, answer) /\ poller = "send"
      BY <2>3 DEF PushFill
    <3>2. answer.status = "FILLED" => answer.id \in Ids /\ Filled(answer.id)
      BY <1>2, <3>1 DEF FilledInFull
    <3>3. /\ Len(temp) \in Nat /\ DOMAIN temp = 1..Len(temp) /\ DOMAIN temp' = 1..(Len(temp) + 1)
          /\ \A n \in DOMAIN temp : temp'[n] = temp[n]
          /\ temp'[Len(temp) + 1] = answer
      BY <2>1, <3>1, AppendedIs
    <3> QED  BY <1>0, <2>0, <3>2, <3>3 DEF Filled
  <2>4. CASE TakePolledFill
    <3>1. temp' = Tail(temp) /\ temp # <<>>
      BY <2>4 DEF TakePolledFill
    <3>2. \A n \in DOMAIN temp' : temp'[n] = temp[n + 1] /\ n + 1 \in DOMAIN temp
      BY <2>1, <3>1, TailIs
    <3> QED  BY <1>0, <2>0, <3>2 DEF Filled
  <2> QED  BY <2>2, <2>3, <2>4, Frame
<1> QED  BY <1>1, <1>3, <1>4 DEF FilledInFull

\* How the loops that close and post come in, go on and end.
LEMMA LoopTurns ==
  ASSUME [Next]_vars, ~poisoned, "gave_up" \notin mishaps'
  PROVE  /\ main = "post" =>
              \/ main' = "post" /\ just_deployed' = just_deployed
              \/ main' = "post" /\ \E n \in OrderNames : PostFuturesOrder(n)
              \/ Swap /\ main' # "post" /\ deployed' = just_deployed
         /\ main' = "post" => main = "post" \/ (main = "closing" /\ toClose = <<>> /\ UNCHANGED <<venue, deployed>>)
         /\ main' = "closing" => \/ UNCHANGED deployed /\ toClose' = deployed
                                 \/ /\ main = "closing"
                                    /\ (deployed' = deployed \/ NoteExecution)
                                    /\ toClose' = toClose \/ CloseOrder
<1> USE DEF mainVars, pollerVars, hubVars, historyVars
<1>1. CASE Environment \/ InfoUpdater \/ UNCHANGED vars
  BY <1>1 DEF Environment, VenueFill, HubTakesReport, HubSendsBatch, InfoUpdater, InfoUpdateFails, vars
<1>2. CASE Poller
  BY <1>2 DEF Poller, PollerWakes, PollFuturesOrder, PollFails, NothingNew, NoteExecution, PollerPanics, PushFill
<1>3. CASE ServeFills \/ SeeChange \/ Borrow
  BY <1>3 DEF ServeFills, TakePolledFill, ReportFill, Drained, SeeChange, Borrow, Die
<1>4. CASE StartClosing \/ StopClosing \/ AllClosed
  BY <1>4 DEF StartClosing, StopClosing, AllClosed, StartPosting, Die
<1>5. CASE CloseOrder \/ CloseFails
  BY <1>5 DEF CloseOrder, CloseFails
<1>6. CASE NothingToClose
  BY <1>6 DEF NothingToClose, StartPosting
<1>7. CASE Swap
  BY <1>7 DEF Swap
<1>8. ASSUME NEW n \in OrderNames, PostFuturesOrder(n) \/ PostFails(n)
      PROVE  /\ main = "post" /\ main' = "post"
             /\ just_deployed' = just_deployed \/ PostFuturesOrder(n)
  BY <1>8 DEF PostFuturesOrder, PostFails, Posting
<1>9. CASE \E n \in OrderNames : PostFuturesOrder(n) \/ PostFails(n)
  BY <1>8, <1>9
<1> QED  BY <1>1, <1>2, <1>3, <1>4, <1>5, <1>6, <1>7, <1>9 DEF Next, Close, Post

\* A deployed order stays deployed but for its own fill and the next batch.
LEMMA StaysDeployed ==
  ASSUME Controls, Lists, Names, ClosesAll, LeavesOnce, [Next]_vars,
         NEW id \in IdsIn(deployed), ~Canceled(id),
         TakePolledFill /\ Head(temp).status = "FILLED" => Head(temp).id # id
  PROVE  id \in IdsIn(deployed)'
<1>1. CASE deployed' = deployed
  BY <1>1 DEF IdsIn
<1>2. CASE NoteExecution
  BY <1>2, IdsMove
<1>3. CASE main = "post"
  BY <1>3 DEF ClosesAll
<1>4. CASE TakePolledFill /\ deployed' = Remaining(Head(temp))
  <2> DEFINE f == Head(temp)
             r == Remaining(f)
  <2>1. /\ deployed \in Seq(Entries) /\ Distinct(deployed)
        /\ temp \in Seq(Fills) /\ temp # <<>>
    BY <1>4 DEF Lists, Names, TakePolledFill
  <2>2. f = temp[1] /\ 1 \in DOMAIN temp
    BY <2>1, TailIs
  <2>3. PICK m \in DOMAIN deployed : deployed[m].id = id
    BY DEF IdsIn
  <2>4. f.status = "FILLED" => deployed[m].name # f.name
    <3> SUFFICES ASSUME f.status = "FILLED"  PROVE deployed[m].name # f.name
      OBVIOUS
    <3>1. f.id \in IdsIn(deployed) /\ f.name = venue[f.id].name /\ f.id # id
      <4>1. f.id \in IdsIn(deployed)
        BY <2>2 DEF LeavesOnce
      <4>2. f.name = venue[f.id].name
        BY <2>2 DEF Names, Named
      <4> QED  BY <1>4, <4>1, <4>2
    <3> HIDE DEF f
    <3>2. PICK k \in DOMAIN deployed : deployed[k].id = f.id
      BY <3>1 DEF IdsIn
    <3>3. deployed[k].name = f.name /\ k # m
      BY <2>3, <3>1, <3>2 DEF Names, Named
    <3> QED  BY <2>1, <3>3 DEF Distinct
  <2>5. \E n \in DOMAIN r : r[n] = deployed[m]
    <3> HIDE DEF f
    <3> QED  BY <2>1, <2>4, RemainingIs
  <2>6. deployed' = r
    BY <1>4
  <2> HIDE DEF f, r
  <2> QED  BY <2>3, <2>5, <2>6 DEF IdsIn
<1> QED  BY <1>1, <1>2, <1>3, <1>4, DeployedNext

\* The close loop leaves none out.
LEMMA ClosesAllPreserved ==
  ASSUME Controls, Lists, Names, ClosesAll, [Next]_vars, NothingWrong, NothingWrong'
  PROVE  ClosesAll'
<1>0. ~poisoned /\ "gave_up" \notin mishaps'
  BY DEF NothingWrong, Controls
<1>1. \A id \in IdsIn(deployed) : id \in Ids /\ (Canceled(id) => Canceled(id)')
  <2>1. IdsIn(deployed) \subseteq Ids
    BY Elements DEF IdsIn, Entries
  <2> QED  BY <2>1, VenueMoves DEF Canceled
<1>2. ASSUME main' = "post", NEW id \in IdsIn(deployed)'  PROVE Canceled(id)'
  <2>1. CASE main = "post"
    BY <1>1, <1>2, <2>1, IdsMove DEF ClosesAll
  <2>2. CASE main = "closing" /\ toClose = <<>> /\ UNCHANGED <<venue, deployed>>
    <3>1. IdsIn(toClose) = {} /\ IdsIn(deployed)' = IdsIn(deployed)
      BY <2>2 DEF IdsIn
    <3> QED  BY <1>1, <1>2, <2>2, <3>1 DEF ClosesAll
  <2> QED  BY <1>0, <1>2, <2>1, <2>2, LoopTurns
<1>3. ASSUME main' = "closing", NEW id \in IdsIn(deployed)'  PROVE Canceled(id)' \/ id \in IdsIn(toClose)'
  <2>1. CASE deployed' = deployed /\ toClose' = deployed
    BY <1>3, <2>1 DEF IdsIn
  <2>2. CASE main = "closing" /\ (deployed' = deployed \/ NoteExecution) /\ toClose' = toClose
    <3>1. IdsIn(deployed)' = IdsIn(deployed) /\ IdsIn(toClose)' = IdsIn(toClose)
      BY <2>2, IdsMove DEF IdsIn
    <3> QED  BY <1>1, <1>3, <2>2, <3>1 DEF ClosesAll
  <2>3. CASE CloseOrder
    <3>1. /\ main = "closing" /\ toClose # <<>> /\ deployed' = deployed
          /\ Cancel(Head(toClose).id) /\ toClose' = Tail(toClose) /\ toClose \in Seq(Entries)
      BY <2>3 DEF CloseOrder, Lists
    <3>2. /\ Head(toClose) = toClose[1] /\ 1 \in DOMAIN toClose /\ Head(toClose) \in Entries
          /\ DOMAIN toClose = 1..Len(toClose) /\ Len(toClose) \in Nat
          /\ DOMAIN Tail(toClose) = 1..(Len(toClose) - 1)
          /\ \A n \in DOMAIN Tail(toClose) : Tail(toClose)[n] = toClose[n + 1]
      BY <3>1, TailIs, Elements
    <3>3. venue'[Head(toClose).id].status = "CANCELED"
      <4>1. Head(toClose).id \in Ids
        BY <3>2 DEF Entries
      <4> QED  BY <3>1, <4>1, CancelIs
    <3>4. \A m \in DOMAIN toClose : m = 1 \/ m - 1 \in DOMAIN Tail(toClose)
      BY <3>2
    <3>5. \A m \in DOMAIN toClose : m = 1 \/ toClose[m].id \in IdsIn(toClose')
      <4> SUFFICES ASSUME NEW m \in DOMAIN toClose, m # 1  PROVE toClose[m].id \in IdsIn(toClose')
        OBVIOUS
      <4>1. m - 1 \in DOMAIN Tail(toClose) /\ (m - 1) + 1 = m
        BY <3>2, <3>4
      <4>2. Tail(toClose)[m - 1] = toClose[m]
        BY <3>2, <4>1
      <4> QED  BY <3>1, <4>1, <4>2 DEF IdsIn
    <3>6. id \in IdsIn(deployed)
      BY <1>3, <3>1 DEF IdsIn
    <3>7. CASE Canceled(id)
      BY <1>1, <3>6, <3>7
    <3>8. CASE id \in IdsIn(toClose)
      <4>1. PICK m \in DOMAIN toClose : toClose[m].id = id
        BY <3>8 DEF IdsIn
      <4> QED  BY <3>2, <3>3, <3>5, <4>1 DEF Canceled
    <3> QED  BY <3>1, <3>6, <3>7, <3>8 DEF ClosesAll
  <2> QED  BY <1>0, <1>3, <2>1, <2>2, <2>3, LoopTurns
<1> QED  BY <1>2, <1>3 DEF ClosesAll

\* What is open stays known: deployed, being posted, or swapped in.
LEMMA OpenOnesStayTracked ==
  ASSUME Controls, Lists, Names, FilledInFull, ClosesAll, LeavesOnce, OpenOnesTracked,
         [Next]_vars, NothingWrong, NothingWrong'
  PROVE  OpenOnesTracked'
<1>0. ~poisoned /\ "gave_up" \notin mishaps' /\ "post_lost" \notin mishaps'
  BY DEF NothingWrong, Controls
<1> SUFFICES ASSUME NEW id \in Ids', venue'[id].status = "NEW"  PROVE id \in Tracked'
  BY DEF OpenOnesTracked
<1>1. CASE id \in Ids
  <2>1. venue[id].status = "NEW"
    BY <1>1, VenueMoves
  <2>2. ~Canceled(id) /\ ~Filled(id)
    BY <2>1 DEF Canceled, Filled
  <2>3. CASE id \in IdsIn(deployed)
    <3>1. TakePolledFill /\ Head(temp).status = "FILLED" => Head(temp).id # id
      <4>1. TakePolledFill => temp # <<>> /\ temp \in Seq(Fills)
        BY DEF TakePolledFill, Lists
      <4>2. TakePolledFill => Head(temp) = temp[1] /\ 1 \in DOMAIN temp
        BY <4>1, TailIs
      <4> QED  BY <2>2, <4>2 DEF FilledInFull
    <3>2. id \in IdsIn(deployed)'
      BY <2>2, <2>3, <3>1, StaysDeployed
    <3> QED  BY <3>2 DEF Tracked
  <2>4. CASE main = "post" /\ id \in IdsIn(just_deployed)
    <3>1. CASE main' = "post" /\ just_deployed' = just_deployed
      BY <2>4, <3>1 DEF Tracked, IdsIn
    <3>2. ASSUME NEW n \in OrderNames, PostFuturesOrder(n), main' = "post"  PROVE id \in Tracked'
      <4> DEFINE e == [id |-> Len(venue) + 1, name |-> n, filled |-> 0]
      <4>1. just_deployed' = Append(just_deployed, e) /\ just_deployed \in Seq(Entries)
        BY <3>2 DEF PostFuturesOrder, Lists
      <4> HIDE DEF e
      <4>2. /\ DOMAIN just_deployed = 1..Len(just_deployed) /\ Len(just_deployed) \in Nat
            /\ DOMAIN just_deployed' = 1..(Len(just_deployed) + 1)
            /\ \A m \in DOMAIN just_deployed : just_deployed'[m] = just_deployed[m]
        BY <4>1, AppendedIs
      <4>3. PICK m \in DOMAIN just_deployed : just_deployed[m].id = id
        BY <2>4 DEF IdsIn
      <4>4. m \in DOMAIN just_deployed' /\ just_deployed'[m].id = id
        BY <4>2, <4>3
      <4> QED  BY <3>2, <4>4 DEF Tracked, IdsIn
    <3>3. CASE Swap /\ main' # "post" /\ deployed' = just_deployed
      BY <2>4, <3>3 DEF Tracked, IdsIn
    <3> QED  BY <1>0, <2>4, <3>1, <3>2, <3>3, LoopTurns
  <2> QED  BY <1>1, <2>1, <2>3, <2>4 DEF OpenOnesTracked, Tracked
<1>2. CASE id \notin Ids
  <2>1. PICK n \in OrderNames : Accepted(n) /\ PostFuturesOrder(n)
    <3>1. Ids' # Ids
      BY <1>2
    <3>2. UNCHANGED venue => Ids' = Ids
      BY DEF Ids
    <3>3. (\E k \in DOMAIN venue : VenueFill(k)) => Ids' = Ids
      BY VenueFillIs, Elements DEF Ids
    <3>4. CloseOrder \/ CloseFails => Head(toClose).id \in Ids
      <4>1. CloseOrder \/ CloseFails => toClose # <<>> /\ toClose \in Seq(Entries)
        BY DEF CloseOrder, CloseFails, Lists
      <4>2. CloseOrder \/ CloseFails => Head(toClose) \in Entries
        BY <4>1, TailIs, Elements
      <4> QED  BY <4>2 DEF Entries
    <3>5. \A k \in Ids : Cancel(k) => Ids' = Ids
      BY CancelIs DEF Ids
    <3>6. NoteExecution => UNCHANGED venue
      BY DEF NoteExecution
    <3> QED  BY <1>0, <3>1, <3>2, <3>3, <3>4, <3>5, <3>6, Frame
  <2> DEFINE e == [id |-> Len(venue) + 1, name |-> n, filled |-> 0]
             k == Len(just_deployed)
  <2>2. /\ just_deployed' = Append(just_deployed, e) /\ just_deployed \in Seq(Entries)
        /\ main' = "post"
    BY <2>1 DEF PostFuturesOrder, Posting, Lists
  <2>3. e.id = Len(venue) + 1
    OBVIOUS
  <2> HIDE DEF e
  <2>4. /\ k \in Nat /\ DOMAIN just_deployed' = 1..(k + 1) /\ just_deployed'[k + 1] = e
    BY <2>2, AppendedIs
  <2>5. id = Len(venue) + 1
    <3>1. Len(venue') = Len(venue) + 1 /\ Len(venue) \in Nat
      BY <2>1, AcceptedIs, Elements
    <3> QED  BY <1>2, <3>1 DEF Ids
  <2>6. k + 1 \in DOMAIN just_deployed' /\ just_deployed'[k + 1].id = id
    BY <2>3, <2>4, <2>5
  <2> QED  BY <2>2, <2>6 DEF Tracked, IdsIn
<1> QED  BY <1>1, <1>2

\* Told in full, told for good.
LEMMA ToldInFullStays ==
  ASSUME Controls, Lists, Names, ToldUpToNow, [Next]_vars, NEW id \in Ids, heard[id] = Qty
  PROVE  heard'[id] = Qty
<1>1. CASE heard'[id] = heard[id]
  BY <1>1
<1>2. CASE NoteExecution /\ id = answer.id /\ heard'[id] = answer.executed
  <2>1. poller = "answer"
    BY <1>2 DEF NoteExecution
  <2>2. answer.executed \in 0..Qty /\ Qty \in Nat
    BY <1>2, NotedIs
  <2>3. Qty <= answer.executed
    BY <1>2, <2>1 DEF ToldUpToNow
  <2> QED  BY <1>2, <2>2, <2>3
<1> QED  BY <1>1, <1>2, HeardMoves

\* An order's last fill is queued once, and waits while the order is deployed.
LEMMA LeavesOncePreserved ==
  ASSUME Controls, Lists, Names, ToldUpToNow, HeardIsWritten, FilledInFull, ClosesAll, LeavesOnce,
         [Next]_vars, NothingWrong'
  PROVE  LeavesOnce'
<1>0. temp \in Seq(Fills) /\ "misplaced" \notin mishaps'
  BY DEF Lists, NothingWrong
<1>1. \A n \in DOMAIN temp : temp[n].status = "FILLED" =>
        /\ temp[n].id \in Ids /\ Filled(temp[n].id) /\ ~Canceled(temp[n].id)
        /\ temp[n].id \in IdsIn(deployed) /\ heard'[temp[n].id] = Qty
  <2>1. \A n \in DOMAIN temp : temp[n].status = "FILLED" =>
          /\ temp[n].id \in Ids /\ Filled(temp[n].id)
          /\ temp[n].id \in IdsIn(deployed) /\ heard[temp[n].id] = Qty
    BY Elements DEF Fills, FilledInFull, LeavesOnce
  <2> QED  BY <2>1, ToldInFullStays DEF Filled, Canceled
<1>2. TakePolledFill =>
        /\ temp # <<>> /\ temp' = Tail(temp)
        /\ Head(temp) = temp[1] /\ 1 \in DOMAIN temp /\ DOMAIN temp = 1..Len(temp) /\ Len(temp) \in Nat
        /\ DOMAIN temp' = 1..(Len(temp) - 1)
        /\ \A n \in DOMAIN temp' : temp'[n] = temp[n + 1] /\ n + 1 \in DOMAIN temp
  <2>1. TakePolledFill => temp # <<>> /\ temp' = Tail(temp)
    BY DEF TakePolledFill
  <2> QED  BY <1>0, <2>1, TailIs
<1>3. ASSUME NEW n \in DOMAIN temp, temp[n].status = "FILLED", TakePolledFill => n # 1
      PROVE  temp[n].id \in IdsIn(deployed)'
  <2>1. TakePolledFill /\ Head(temp).status = "FILLED" => Head(temp).id # temp[n].id
    BY <1>2, <1>3 DEF LeavesOnce
  <2>2. temp[n].id \in IdsIn(deployed) /\ ~Canceled(temp[n].id)
    BY <1>1, <1>3
  <2> QED  BY <2>1, <2>2, StaysDeployed
<1>4. PushFill =>
        /\ poller = "send" /\ temp' = Append(temp, answer) /\ UNCHANGED <<deployed, heard>>
        /\ DOMAIN temp = 1..Len(temp) /\ Len(temp) \in Nat /\ DOMAIN temp' = 1..(Len(temp) + 1)
        /\ temp'[Len(temp) + 1] = answer /\ \A n \in DOMAIN temp : temp'[n] = temp[n]
  <2>1. PushFill => poller = "send" /\ temp' = Append(temp, answer) /\ UNCHANGED <<deployed, heard>>
    BY DEF PushFill, historyVars
  <2> QED  BY <1>0, <2>1, AppendedIs
<1>5. ASSUME NEW n \in DOMAIN temp', temp'[n].status = "FILLED"
      PROVE  temp'[n].id \in IdsIn(deployed)' /\ heard'[temp'[n].id] = Qty
  <2>1. CASE TakePolledFill
    <3>1. n + 1 \in DOMAIN temp /\ temp'[n] = temp[n + 1] /\ n + 1 # 1
      BY <1>2, <1>5, <2>1
    <3> QED  BY <1>1, <1>3, <1>5, <3>1
  <2>2. CASE PushFill
    <3>1. IdsIn(deployed)' = IdsIn(deployed)
      BY <1>4, <2>2 DEF IdsIn
    <3>2. CASE n \in DOMAIN temp
      BY <1>1, <1>4, <1>5, <2>2, <3>1, <3>2
    <3>3. CASE n = Len(temp) + 1
      BY <1>4, <1>5, <2>2, <3>1, <3>3 DEF LeavesOnce
    <3> QED  BY <1>4, <2>2, <3>2, <3>3
  <2>3. CASE temp' = temp /\ ~TakePolledFill
    BY <1>1, <1>3, <1>5, <2>3
  <2> QED  BY <2>1, <2>2, <2>3, Frame
<1>6. ASSUME NEW m \in DOMAIN temp', NEW n \in DOMAIN temp',
             temp'[m].status = "FILLED", temp'[n].status = "FILLED", temp'[m].id = temp'[n].id
      PROVE  m = n
  <2>1. CASE TakePolledFill
    <3>1. /\ n + 1 \in DOMAIN temp /\ temp'[n] = temp[n + 1]
          /\ m + 1 \in DOMAIN temp /\ temp'[m] = temp[m + 1] /\ m \in Nat /\ n \in Nat
      BY <1>2, <1>6, <2>1
    <3>2. m + 1 = n + 1
      BY <1>6, <3>1 DEF LeavesOnce
    <3> QED  BY <3>1, <3>2
  <2>2. CASE PushFill
    <3>1. m \in DOMAIN temp \/ m = Len(temp) + 1
      BY <1>4, <2>2
    <3>2. n \in DOMAIN temp \/ n = Len(temp) + 1
      BY <1>4, <2>2
    <3>3. CASE m \in DOMAIN temp /\ n \in DOMAIN temp
      BY <1>4, <1>6, <2>2, <3>3 DEF LeavesOnce
    <3>4. \A k \in DOMAIN temp : answer.status = "FILLED" /\ temp[k].status = "FILLED" => temp[k].id # answer.id
      BY <1>4, <2>2 DEF LeavesOnce
    <3> QED  BY <1>4, <1>6, <2>2, <3>1, <3>2, <3>3, <3>4
  <2>3. CASE temp' = temp
    BY <1>6, <2>3 DEF LeavesOnce
  <2> QED  BY <2>1, <2>2, <2>3, Frame
<1>7. ASSUME poller' = "send", answer'.status = "FILLED"
      PROVE  /\ answer'.id \in IdsIn(deployed)' /\ heard'[answer'.id] = Qty
             /\ \A n \in DOMAIN temp' : temp'[n].status = "FILLED" => temp'[n].id # answer'.id
  <2>1. CASE NoteExecution
    <3>1. /\ poller = "answer" /\ UNCHANGED <<answer, temp>> /\ HasNews
          /\ deployed[i].id = answer.id
      BY <1>0, <2>1 DEF NoteExecution, Slot
    <3>2. /\ i \in DOMAIN deployed /\ answer.id \in Ids /\ heard'[answer.id] = answer.executed
          /\ answer.executed = Qty
      BY <1>7, <2>1, <3>1, NotedIs DEF FilledInFull
    <3>3. answer.id \in IdsIn(deployed)'
      <4>1. answer.id \in IdsIn(deployed)
        BY <3>1, <3>2 DEF IdsIn
      <4> QED  BY <2>1, <4>1, IdsMove
    <3>4. heard[answer.id] # Qty
      <4>1. orders # <<>> /\ answer.id = orders[i].id
        BY <3>1 DEF Lists
      <4>2. i \in DOMAIN orders /\ i \in Nat
        BY <4>1, Elements DEF Lists
      <4>3. orders[i].filled = heard[answer.id]
        BY <3>1, <4>1, <4>2 DEF HeardIsWritten, SaysHeard
      <4> QED  BY <3>1, <3>2, <4>3 DEF HasNews
    <3> QED  BY <3>1, <3>2, <3>3, <3>4 DEF LeavesOnce
  <2>2. CASE UNCHANGED <<poller, orders, i, answer>>
    <3>1. /\ answer.id \in IdsIn(deployed) /\ heard[answer.id] = Qty
          /\ \A n \in DOMAIN temp : temp[n].status = "FILLED" => temp[n].id # answer.id
          /\ Filled(answer.id)
      BY <1>7, <2>2 DEF LeavesOnce, FilledInFull
    <3>2. answer.id \in Ids
      BY <1>7, <2>2 DEF Lists, Fills
    <3>3. heard'[answer.id] = Qty
      BY <3>1, <3>2, ToldInFullStays
    <3>4. TakePolledFill /\ Head(temp).status = "FILLED" => Head(temp).id # answer.id
      BY <1>2, <3>1
    <3>5. answer.id \in IdsIn(deployed)'
      BY <3>1, <3>4, StaysDeployed DEF Filled, Canceled
    <3>6. ~PushFill
      <4>1. PushFill => PollNext
        BY DEF PushFill
      <4> QED  BY <1>7, <4>1, PollNextTurns
    <3>7. \A n \in DOMAIN temp' : temp'[n].status = "FILLED" => temp'[n].id # answer.id
      <4>1. temp' = temp \/ TakePolledFill
        BY <3>6, Frame
      <4> QED  BY <1>2, <3>1, <4>1
    <3> QED  BY <2>2, <3>3, <3>5, <3>7
  <2>3. PollFuturesOrder => poller' = "answer"
    BY DEF PollFuturesOrder
  <2> QED  BY <1>7, <2>1, <2>2, <2>3, Frame
<1> QED  BY <1>5, <1>6, <1>7 DEF LeavesOnce

\* At first there is nothing to forget.
LEMMA InitTracked == Init => TrackedInv
<1> SUFFICES ASSUME Init  PROVE TrackedInv
  OBVIOUS
<1>1. /\ DOMAIN temp = {} /\ Ids = {} /\ poller = "sleep" /\ main = "select"
  BY EmptySeq DEF Init, Ids
<1>2. FilledInFull /\ ClosesAll /\ OpenOnesTracked /\ LeavesOnce
  BY <1>1 DEF FilledInFull, ClosesAll, OpenOnesTracked, LeavesOnce
<1> QED  BY <1>2, InitHistory DEF TrackedInv

\* Every reachable state satisfies the strengthening.
THEOREM TrackedInvariant == Spec => []TrackedInv
<1>1. TrackedInv /\ HistoryInv' /\ [Next]_vars => TrackedInv'
  <2> SUFFICES ASSUME TrackedInv, HistoryInv', [Next]_vars  PROVE TrackedInv'
    OBVIOUS
  <2>1. /\ Controls /\ Lists /\ Names /\ ToldUpToNow /\ FilledInFull
        /\ "misplaced" \notin mishaps => HeardIsWritten
        /\ NothingWrong => ClosesAll /\ OpenOnesTracked /\ LeavesOnce
    BY DEF TrackedInv, HistoryInv
  <2>2. FilledInFull'
    BY <2>1, FilledInFullPreserved
  <2>3. ASSUME NothingWrong'  PROVE ClosesAll' /\ OpenOnesTracked' /\ LeavesOnce'
    <3>1. NothingWrong
      BY <2>3, Frame DEF NothingWrong
    <3>2. HeardIsWritten /\ ClosesAll /\ OpenOnesTracked /\ LeavesOnce
      BY <2>1, <3>1 DEF NothingWrong
    <3>3. ClosesAll'
      BY <2>1, <2>3, <3>1, <3>2, ClosesAllPreserved
    <3>4. OpenOnesTracked'
      BY <2>1, <2>3, <3>1, <3>2, OpenOnesStayTracked
    <3>5. LeavesOnce'
      BY <2>1, <2>3, <3>2, LeavesOncePreserved
    <3> QED  BY <3>3, <3>4, <3>5
  <2> QED  BY <2>2, <2>3 DEF TrackedInv
<1> QED  BY InitTracked, HistoryInvariant, <1>1, PTL DEF Spec

\* The strengthening gives every variable its type.
LEMMA ShapesAreTypes ==
  ASSUME Controls, Lists
  PROVE  TypeOK
<1>1. Entries \subseteq DeployedOrders /\ Fills \subseteq PolledFills
  BY DEF Controls, Entries, Fills, DeployedOrders, PolledFills
<1>2. {deployed, toClose, just_deployed, orders} \subseteq Seq(DeployedOrders) /\ temp \in Seq(PolledFills)
  BY <1>1, SeqMonotonic DEF Lists
<1>3. {inHand, answer} \subseteq PolledFills \union {NoFill}
  BY <1>1 DEF Lists
<1>4. target \subseteq OrderNames /\ placed \subseteq OrderNames
  BY DEF Controls
<1> QED  BY <1>2, <1>3, <1>4 DEF TypeOK, Controls, Lists

\* No order is left open on the venue that the runtime does not know of, and no
\* name has two open orders, unless the close loop gave up, an accepted post was
\* reported as failed, or the poller mixed up two entries: for any number of
\* orders and batches, and any interleaving of the two tasks and the venue.
THEOREM OpenOrdersTrackedTheorem == Spec => []OpenOrdersTracked
<1>1. ASSUME TrackedInv  PROVE OpenOrdersTracked
  <2>1. Controls /\ Lists /\ Names
    BY <1>1 DEF TrackedInv, HistoryInv
  <2>2. ASSUME NothingWrong, NEW a \in Ids, NEW b \in Ids,
               venue[a].status = "NEW", venue[b].status = "NEW", venue[a].name = venue[b].name
        PROVE  a = b
    <3>1. ClosesAll /\ a \in Tracked /\ b \in Tracked
      BY <1>1, <2>2 DEF TrackedInv, OpenOnesTracked
    <3>2. CASE main # "post"
      <4>1. a \in IdsIn(deployed) /\ b \in IdsIn(deployed)
        BY <3>1, <3>2 DEF Tracked
      <4>2. PICK m \in DOMAIN deployed : deployed[m].id = a
        BY <4>1 DEF IdsIn
      <4>3. PICK n \in DOMAIN deployed : deployed[n].id = b
        BY <4>1 DEF IdsIn
      <4>4. deployed[m].name = deployed[n].name
        BY <2>1, <2>2, <4>2, <4>3 DEF Names, Named
      <4> QED  BY <2>1, <4>2, <4>3, <4>4 DEF Names, Distinct
    <3>3. CASE main = "post"
      <4>1. a \in IdsIn(just_deployed) /\ b \in IdsIn(just_deployed)
        BY <2>2, <3>1, <3>3 DEF Tracked, ClosesAll, Canceled
      <4>2. PICK m \in DOMAIN just_deployed : just_deployed[m].id = a
        BY <4>1 DEF IdsIn
      <4>3. PICK n \in DOMAIN just_deployed : just_deployed[n].id = b
        BY <4>1 DEF IdsIn
      <4>4. just_deployed[m].name = just_deployed[n].name
        BY <2>1, <2>2, <4>2, <4>3 DEF Names, Named
      <4> QED  BY <2>1, <4>2, <4>3, <4>4 DEF Names, Distinct
    <3> QED  BY <3>2, <3>3
  <2>3. TypeOK
    BY <2>1, ShapesAreTypes
  <2>4. NothingWrong => \A id \in Ids : venue[id].status = "NEW" => id \in Tracked
    BY <1>1 DEF TrackedInv, OpenOnesTracked
  <2> QED  BY <2>2, <2>3, <2>4 DEF OpenOrdersTracked, NothingWrong
<1> QED  BY TrackedInvariant, <1>1, PTL
=============================================================================
