---------------------------- MODULE ClientProofs ----------------------------
(***************************************************************************)
(* Proofs about the programs beside the chain, which ask and are answered  *)
(* late: the scanners, and of the interface the multicall updater, the     *)
(* token lists and the pages of the token bank.  Pages of answers have any *)
(* size, lists and calls any number, the chain any length.                 *)
(***************************************************************************)
EXTENDS Multicall, Scanner, Lists, BankPage, LedgerLemmas, FiniteSetTheorems, SequenceTheorems, TLAPS

-----------------------------------------------------------------------------
(***************************************************************************)
(* The scanners.                                                           *)
(*                                                                         *)
(* That reports are in order is not inductive by itself.  OrderInv says    *)
(* why it holds: what is left to do is newer than what has been reported;  *)
(* a cursor is at or after the last report between two pages; and whatever *)
(* the window of bank would return of what it has not seen is newer than   *)
(* its reports, and either about to be reported or newer than all of that. *)
(* The window only moves forward (PageSlides).                             *)
(***************************************************************************)

CursorInv ==
    scanner # "bank" =>
       /\ pc = "poll" => \A i \in DOMAIN records : records[i] <= mark
       /\ pc = "work" => /\ \A i \in DOMAIN records : records[i] <= newest
                         /\ \A t \in todo : t <= newest

WindowInv ==
    scanner = "bank" =>
       \A s \in Page(Limit, 0) \ processed :
          /\ \A i \in DOMAIN records : records[i] < s
          /\ s \in todo \/ \A t \in todo : t < s

OrderInv ==
    /\ \A i \in DOMAIN records, t \in todo : records[i] < t
    /\ CursorInv
    /\ WindowInv
    /\ pc = "start" => records = <<>>

ScannerInv == TypeOK /\ ReportedInOrder /\ OrderInv

(* A nonempty bounded set of natural numbers has a greatest element. *)
LEMMA GreatestExists ==
  ASSUME NEW n \in Nat, NEW S \in SUBSET (1..n), S # {}
  PROVE  \E s \in S : \A t \in S : t <= s
<1> DEFINE R == {n - s : s \in S}
<1>1. R \in SUBSET Nat /\ R # {}
  <2>1. \A s \in S : n - s \in Nat
    OBVIOUS
  <2>2. R \subseteq Nat
    BY <2>1
  <2>3. PICK s \in S : TRUE
    OBVIOUS
  <2>4. n - s \in R
    BY <2>3
  <2> QED BY <2>2, <2>4
<1>2. PICK r \in R : \A q \in R : r <= q
  <2> HIDE DEF R
  <2> QED BY <1>1, LeastExists
<1>3. PICK s \in S : r = n - s
  BY <1>2
<1>4. \A t \in S : t <= s
  <2> SUFFICES ASSUME NEW t \in S PROVE t <= s
    OBVIOUS
  <2>1. n - s <= n - t
    BY <1>2, <1>3
  <2> QED BY <2>1
<1> QED BY <1>4

(* The newest transaction is one, and no other is newer. *)
LEMMA LatestIsLast ==
  ASSUME chain \in Seq(Kinds)
  PROVE  /\ LatestTx \in 0..Len(chain)
         /\ \A s \in Txs : s <= LatestTx
<1>1. Txs \in SUBSET (1..Len(chain)) /\ Len(chain) \in Nat
  BY DEF Txs
<1>2. CASE Txs = {}
  BY <1>1, <1>2 DEF LatestTx
<1>3. CASE Txs # {}
  <2>1. PICK s \in Txs : \A t \in Txs : t <= s
    BY <1>1, <1>3, GreatestExists
  <2>2. After(s) = {}
    <3>1. \A t \in Txs : ~ (t > s)
      BY <1>1, <2>1
    <3> QED BY <3>1 DEF After
  <2>3. LatestTx \in Txs /\ After(LatestTx) = {}
    BY <1>3, <2>2 DEF LatestTx
  <2>4. \A t \in Txs : ~ (t > LatestTx)
    BY <2>3 DEF After
  <2> QED BY <1>1, <2>3, <2>4
<1> QED BY <1>2, <1>3

(* What the window returns once the chain has grown, it returned before, or it is the new slot. *)
LEMMA PageSlides ==
  ASSUME chain \in Seq(Kinds), NEW k \in Kinds, chain' = Append(chain, k),
         NEW n \in Nat, NEW u \in Nat, NEW s \in Page(n, u)', s # Len(chain) + 1
  PROVE  s \in Page(n, u)
<1>1. /\ Txs \subseteq 1..Len(chain) /\ Txs' \subseteq 1..(Len(chain) + 1)
      /\ Txs = Txs' \ {Len(chain) + 1} /\ Len(chain) \in Nat
  BY DEF Txs
<1>2. s \in Txs /\ s > u /\ Cardinality(After(s)') < n
  BY <1>1 DEF Page
<1>3. After(s) \in SUBSET After(s)' /\ After(s)' \in SUBSET (1..(Len(chain) + 1))
  BY <1>1 DEF After
<1>4. IsFiniteSet(After(s)')
  <2>1. IsFiniteSet(1..(Len(chain) + 1))
    BY <1>1, FS_Interval
  <2> HIDE DEF After
  <2> QED BY <1>3, <2>1, FS_Subset
<1>5. Cardinality(After(s)) <= Cardinality(After(s)')
  BY <1>3, <1>4, FS_Subset
<1>6. IsFiniteSet(After(s))
  BY <1>3, <1>4, FS_Subset
<1>7. Cardinality(After(s)) \in Nat /\ Cardinality(After(s)') \in Nat
  BY <1>4, <1>6, FS_CardinalityType
<1> QED BY <1>2, <1>5, <1>7 DEF Page

-----------------------------------------------------------------------------
LEMMA InitScannerInv == ScanInit => ScannerInv
<1> SUFFICES ASSUME ScanInit PROVE ScannerInv
  OBVIOUS
<1>1. Txs = {} /\ DOMAIN chain = {} /\ DOMAIN records = {}
  BY DEF ScanInit, Txs
<1>2. Page(Limit, 0) = {}
  BY <1>1 DEF Page
<1>3. TypeOK
  BY BoundsAssumption DEF ScanInit, TypeOK, Finds, Kinds
<1> QED BY <1>1, <1>2, <1>3 DEF ScanInit, ScannerInv, ReportedInOrder, OrderInv, CursorInv, WindowInv

LEMMA GrowStep ==
  ASSUME ScannerInv, ChainGrows
  PROVE  ScannerInv'
<1> USE DEF ScannerInv
<1>1. PICK k \in Kinds : chain' = Append(chain, k)
  BY DEF ChainGrows
<1>2. TypeOK'
  <2>1. chain' \in Seq(Kinds) /\ Len(chain') = Len(chain) + 1 /\ Len(chain) \in Nat
    BY <1>1 DEF TypeOK
  <2>2. DOMAIN chain = 1..Len(chain) /\ DOMAIN chain' = 1..Len(chain')
    BY <2>1 DEF TypeOK
  <2>3. DOMAIN chain \subseteq DOMAIN chain'
    BY <2>1, <2>2
  <2>4. records' \in Seq(DOMAIN chain')
    BY <2>3 DEF TypeOK, ChainGrows
  <2> QED BY <2>1, <2>3, <2>4 DEF TypeOK, ChainGrows
<1>3. WindowInv'
  <2> SUFFICES ASSUME scanner = "bank", NEW s \in (Page(Limit, 0))' \ processed
               PROVE  /\ \A i \in DOMAIN records : records[i] < s
                      /\ s \in todo \/ \A t \in todo : t < s
    BY DEF ChainGrows, WindowInv
  <2>1. CASE s = Len(chain) + 1
    <3>1. \A i \in DOMAIN records : records[i] \in 1..Len(chain)
      BY DEF TypeOK
    <3>2. todo \subseteq 1..Len(chain) /\ Len(chain) \in Nat
      BY DEF TypeOK
    <3> QED BY <2>1, <3>1, <3>2
  <2>2. CASE s # Len(chain) + 1
    <3>1. s \in Page(Limit, 0)
      BY <1>1, <2>2, PageSlides, BoundsAssumption DEF TypeOK
    <3> QED BY <3>1 DEF OrderInv, WindowInv
  <2> QED BY <2>1, <2>2
<1>4. CursorInv' /\ ReportedInOrder'
  BY DEF ChainGrows, OrderInv, CursorInv, ReportedInOrder
<1> QED BY <1>2, <1>3, <1>4 DEF ChainGrows, OrderInv

LEMMA ScannerQuiet ==
  ASSUME ScannerInv, SIGINT \/ PollFails \/ StartFails \/ Stop
  PROVE  ScannerInv'
<1> USE DEF ScannerInv
<1>1. /\ UNCHANGED <<scanner, chain, todo, newest, mark, processed, records, from>>
      /\ pc' \in {pc, "done", "exited"} /\ isRunning' \in BOOLEAN /\ faults' \in 0..MaxFaults
      /\ (pc' = "work") = (todo' # {})
  <2>1. faults' \in 0..MaxFaults
    BY BoundsAssumption DEF SIGINT, PollFails, StartFails, Stop, Fault, TypeOK
  <2>2. (pc' = "work") = (todo' # {})
    BY DEF SIGINT, PollFails, StartFails, Stop, TypeOK
  <2> QED BY <2>1, <2>2 DEF SIGINT, PollFails, StartFails, Stop, TypeOK
<1>2. TypeOK'
  BY <1>1 DEF TypeOK
<1>3. WindowInv'
  BY <1>1 DEF OrderInv, WindowInv, Page, Txs, After
<1>4. CursorInv' /\ ReportedInOrder'
  BY <1>1 DEF OrderInv, CursorInv, ReportedInOrder
<1> QED BY <1>1, <1>2, <1>3, <1>4 DEF OrderInv

LEMMA StartStep ==
  ASSUME ScannerInv, Start
  PROVE  ScannerInv'
<1> USE DEF ScannerInv
<1>1. records = <<>> /\ records' = <<>> /\ todo = {} /\ todo' = {} /\ pc' = "poll"
  BY DEF OrderInv, Start, TypeOK
<1>2. LatestTx \in 0..Len(chain) /\ Len(chain) \in Nat
  BY LatestIsLast DEF TypeOK
<1>3. Txs # {} => LatestTx \in DOMAIN chain
  <2> SUFFICES ASSUME Txs # {} PROVE LatestTx \in DOMAIN chain
    OBVIOUS
  <2>1. PICK s \in Txs : TRUE
    OBVIOUS
  <2>2. s <= LatestTx /\ s \in 1..Len(chain)
    BY LatestIsLast DEF TypeOK, Txs
  <2> QED BY <1>2, <2>2 DEF TypeOK
<1>4. mark' \in 0..Len(chain) /\ processed' \subseteq DOMAIN chain
  BY <1>2, <1>3 DEF Start, StartBank, StartCursor, StartBlock, TypeOK
<1>5. TypeOK'
  BY <1>1, <1>2, <1>4 DEF TypeOK, Start
<1>6. DOMAIN records' = {}
  BY <1>1
<1> QED BY <1>1, <1>5, <1>6 DEF OrderInv, CursorInv, WindowInv, ReportedInOrder

LEMMA PollStep ==
  ASSUME ScannerInv, Poll
  PROVE  ScannerInv'
<1> USE DEF ScannerInv
<1>1. /\ UNCHANGED <<scanner, chain, mark, processed, records, from, faults>>
      /\ pc = "poll" /\ pc' = "work" /\ todo = {} /\ todo' # {}
  BY DEF Poll, TypeOK
<1>2. LatestTx \in 0..Len(chain) /\ Len(chain) \in Nat /\ DOMAIN chain = 1..Len(chain)
  BY LatestIsLast DEF TypeOK
<1>3. /\ todo' \subseteq 1..Len(chain) /\ newest' \in 0..Len(chain)
      /\ scanner # "bank" => \A t \in todo' : t > mark /\ t <= newest'
      /\ scanner = "bank" => todo' = Page(Limit, 0) \ processed
  BY <1>2, LatestIsLast
     DEF Poll, FetchBank, FetchCoder, FetchSol, FetchBlock, Page, Txs, TypeOK
<1>4. TypeOK'
  BY <1>1, <1>2, <1>3 DEF TypeOK, Poll
<1>5. \A i \in DOMAIN records : records[i] \in Nat
  BY <1>2 DEF TypeOK
<1>6. ASSUME NEW i \in DOMAIN records, NEW t \in todo'
      PROVE  records[i] < t
  <2>1. CASE scanner = "bank"
    BY <1>3, <2>1 DEF OrderInv, WindowInv
  <2>2. CASE scanner # "bank"
    <3>1. records[i] <= mark /\ t > mark /\ mark \in Nat /\ t \in Nat
      BY <1>1, <1>2, <1>3, <2>2 DEF OrderInv, CursorInv, TypeOK
    <3> QED BY <1>5, <3>1
  <2> QED BY <2>1, <2>2
<1>7. CursorInv'
  <2>1. PICK t \in todo' : TRUE
    BY <1>1
  <2>2. t \in Nat /\ newest' \in Nat
    BY <1>2, <1>3
  <2>3. ASSUME scanner # "bank", NEW i \in DOMAIN records
        PROVE  records[i] <= newest'
    BY <1>3, <1>5, <1>6, <2>2, <2>3
  <2> QED BY <1>1, <1>3, <2>3 DEF CursorInv
<1>8. WindowInv'
  <2>1. Page(Limit, 0)' = Page(Limit, 0)
    BY <1>1 DEF Page, Txs, After
  <2> QED BY <1>1, <1>3, <1>6, <2>1 DEF WindowInv
<1>9. ReportedInOrder'
  BY <1>1 DEF ReportedInOrder
<1> QED BY <1>1, <1>4, <1>6, <1>7, <1>8, <1>9 DEF OrderInv

LEMMA ProcessStep ==
  ASSUME ScannerInv, Process
  PROVE  ScannerInv'
<1> USE DEF ScannerInv
<1>1. PICK s \in todo :
        /\ NextIs(s)
        /\ todo' = todo \ {s}
        /\ processed' = IF scanner = "bank" THEN processed \cup {s} ELSE processed
        /\ records' \in {records, Append(records, s)}
  BY DEF Process
<1>0. faults' \in 0..MaxFaults
  BY BoundsAssumption DEF Process, Fault, TypeOK
<1>2. /\ UNCHANGED <<scanner, chain, isRunning, newest, from>>
      /\ pc = "work" /\ pc' = IF todo' = {} THEN "poll" ELSE "work"
      /\ mark' = IF todo' = {} /\ scanner # "bank" THEN newest ELSE mark
  BY DEF Process, MarkDone
<1>3. /\ Len(chain) \in Nat /\ DOMAIN chain = 1..Len(chain)
      /\ todo \subseteq Nat /\ s \in Nat /\ s \in DOMAIN chain
      /\ records \in Seq(DOMAIN chain) /\ records' \in Seq(DOMAIN chain)
  <2>1. Len(chain) \in Nat /\ DOMAIN chain = 1..Len(chain) /\ s \in DOMAIN chain
    BY DEF TypeOK
  <2>2. records \in Seq(DOMAIN chain) /\ todo \subseteq DOMAIN chain
    BY DEF TypeOK
  <2>3. Append(records, s) \in Seq(DOMAIN chain)
    BY <2>1, <2>2
  <2> QED BY <1>1, <2>1, <2>2, <2>3
<1>4. TypeOK'
  BY <1>0, <1>1, <1>2, <1>3 DEF TypeOK
<1>5. \A t \in todo' : s < t
  BY <1>1, <1>3 DEF NextIs
<1>6. \A i \in DOMAIN records' :
         (i \in DOMAIN records /\ records'[i] = records[i]) \/ (records'[i] = s /\ i = Len(records) + 1)
  <2>1. records' = records \/ records' = Append(records, s)
    BY <1>1
  <2>2. DOMAIN records = 1..Len(records) /\ Len(records) \in Nat
    BY <1>3
  <2>3. ASSUME records' = Append(records, s)
        PROVE  /\ DOMAIN records' = 1..(Len(records) + 1)
               /\ \A i \in 1..Len(records) : records'[i] = records[i]
               /\ records'[Len(records) + 1] = s
    BY <1>3, <2>3
  <2> QED BY <2>1, <2>2, <2>3
<1>7. \A i \in DOMAIN records : records[i] < s /\ records[i] \in Nat /\ i <= Len(records)
  BY <1>3 DEF OrderInv
<1>8. \A i \in DOMAIN records' : records'[i] <= s /\ records'[i] \in Nat
  BY <1>3, <1>6, <1>7
<1>9. ReportedInOrder'
  <2> SUFFICES ASSUME NEW i \in DOMAIN records', NEW j \in DOMAIN records', i < j
               PROVE  records'[i] < records'[j]
    BY DEF ReportedInOrder
  <2>1. CASE j \in DOMAIN records /\ records'[j] = records[j]
    <3>1. i \in DOMAIN records /\ records'[i] = records[i]
      BY <1>3, <1>6, <1>7, <2>1
    <3> QED BY <2>1, <3>1 DEF ReportedInOrder
  <2>2. CASE records'[j] = s /\ j = Len(records) + 1
    <3>1. i \in DOMAIN records /\ records'[i] = records[i]
      BY <1>3, <1>6, <2>2
    <3> QED BY <1>7, <2>2, <3>1
  <2> QED BY <1>6, <2>1, <2>2
<1>10. \A i \in DOMAIN records', t \in todo' : records'[i] < t
  <2> SUFFICES ASSUME NEW i \in DOMAIN records', NEW t \in todo' PROVE records'[i] < t
    OBVIOUS
  <2>1. records'[i] <= s /\ records'[i] \in Nat /\ s < t /\ t \in Nat
    BY <1>1, <1>3, <1>5, <1>8
  <2> QED BY <1>3, <2>1
<1>11. CursorInv'
  <2> SUFFICES ASSUME scanner # "bank"
               PROVE  /\ pc' = "poll" => \A i \in DOMAIN records' : records'[i] <= mark'
                      /\ pc' = "work" => /\ \A i \in DOMAIN records' : records'[i] <= newest'
                                         /\ \A t \in todo' : t <= newest'
    BY <1>2 DEF CursorInv
  <2>1. newest \in Nat /\ \A t \in todo : t <= newest
    BY <1>2, <1>3 DEF OrderInv, CursorInv, TypeOK
  <2>2. \A i \in DOMAIN records' : records'[i] <= newest
    BY <1>1, <1>3, <1>8, <2>1
  <2>3. pc' = "poll" => mark' = newest
    BY <1>2
  <2> QED BY <1>1, <1>2, <2>1, <2>2, <2>3
<1>12. WindowInv'
  <2> SUFFICES ASSUME scanner = "bank", NEW p \in Page(Limit, 0) \ processed'
               PROVE  /\ \A i \in DOMAIN records' : records'[i] < p
                      /\ p \in todo' \/ \A t \in todo' : t < p
    <3>1. Page(Limit, 0)' = Page(Limit, 0)
      BY <1>2 DEF Page, Txs, After
    <3> QED BY <1>2, <3>1 DEF WindowInv
  <2>1. p # s /\ p \in Page(Limit, 0) \ processed /\ p \in Nat
    BY <1>1, <1>3 DEF Page, Txs
  <2>2. p \in todo \/ \A t \in todo : t < p
    BY <2>1 DEF OrderInv, WindowInv
  <2>3. s < p
    BY <1>1, <1>3, <1>5, <2>1, <2>2
  <2>4. \A i \in DOMAIN records' : records'[i] < p
    BY <1>3, <1>8, <2>1, <2>3
  <2> QED BY <1>1, <2>1, <2>2, <2>4
<1>13. pc' # "start"
  BY <1>2
<1> QED BY <1>4, <1>9, <1>10, <1>11, <1>12, <1>13 DEF OrderInv

LEMMA BreakStep ==
  ASSUME ScannerInv, Break
  PROVE  ScannerInv'
<1> USE DEF ScannerInv
<1>1. TypeOK'
  BY DEF Break, TypeOK
<1>2. CursorInv'
  BY DEF Break, OrderInv, CursorInv
<1>3. WindowInv'
  BY DEF Break, WindowInv
<1>4. ReportedInOrder'
  BY DEF Break, ReportedInOrder
<1> QED BY <1>1, <1>2, <1>3, <1>4 DEF Break, OrderInv

LEMMA StepScannerInv == ScannerInv /\ [ScanNext]_scanVars => ScannerInv'
<1> SUFFICES ASSUME ScannerInv, [ScanNext]_scanVars PROVE ScannerInv'
  OBVIOUS
<1>1. CASE UNCHANGED scanVars
  BY <1>1 DEF scanVars, ScannerInv, TypeOK, ReportedInOrder, OrderInv, CursorInv, WindowInv, Page, Txs, After
<1> QED BY <1>1, GrowStep, ScannerQuiet, StartStep, PollStep, ProcessStep, BreakStep DEF ScanNext, Step

(* For pages of any size, however the chain grows and whatever fails: no   *)
(* transaction is reported twice, or after a later one.                    *)
THEOREM ReportsAreInOrder == ScanSpec => []ReportedInOrder
<1>1. ScannerInv => ReportedInOrder
  BY DEF ScannerInv
<1> QED BY <1>1, InitScannerInv, StepScannerInv, PTL DEF ScanSpec

(* For pages of any size, however the chain grows and whatever fails: every *)
(* scanner implements the feed.  Only Process reports, and what it reports  *)
(* is what was left to do, newer than all that was reported (OrderInv).     *)
THEOREM ScannerImplementsFeed == ScanSpec => ImplementsFeed
<1>1. ScanInit => F!Init
  BY DEF ScanInit, F!Init, Finds, bankFinds, coderFinds, solFinds, blockFinds, Kinds
<1>2. ScannerInv /\ [ScanNext]_scanVars => [F!Next]_F!vars
  <2> SUFFICES ASSUME ScannerInv, [ScanNext]_scanVars PROVE [F!Next]_F!vars
    OBVIOUS
  <2>1. CASE ChainGrows
    BY <2>1 DEF ChainGrows, F!Next, F!Grow
  <2>2. CASE Process
    <3>1. UNCHANGED <<scanner, chain>>
      BY <2>2 DEF Process
    <3>2. PICK s \in todo :
            \/ records' = records
            \/ Reported(s) /\ records' = Append(records, s)
      BY <2>2 DEF Process
    <3>3. s \in DOMAIN chain /\ \A i \in DOMAIN records : records[i] < s
      BY DEF ScannerInv, TypeOK, OrderInv
    <3>4. CASE records' = records
      BY <3>1, <3>4 DEF F!vars
    <3>5. CASE Reported(s) /\ records' = Append(records, s)
      BY <3>1, <3>3, <3>5 DEF F!Next, F!Report, Reported
    <3> QED BY <3>2, <3>4, <3>5
  <2>3. CASE SIGINT \/ PollFails \/ Start \/ StartFails \/ Poll \/ Break \/ Stop
    BY <2>3 DEF SIGINT, PollFails, Start, StartFails, Poll, Break, Stop, F!vars
  <2>4. CASE UNCHANGED scanVars
    BY <2>4 DEF scanVars, F!vars
  <2> QED BY <2>1, <2>2, <2>3, <2>4 DEF ScanNext, Step
<1> QED BY <1>1, <1>2, InitScannerInv, StepScannerInv, PTL DEF ScanSpec, ImplementsFeed, F!Spec

-----------------------------------------------------------------------------
(***************************************************************************)
(* The multicall updater: the store implements the abstract view.          *)
(*                                                                         *)
(* That every key shows an answer of its own is not inductive by itself.   *)
(* FetchInv says why it holds: a request in flight carries, with its calls,*)
(* the keys its answers will be put under, and they are the same keys in   *)
(* the same places, however the list was cut into chunks (ChunksMatch).    *)
(***************************************************************************)

ListenersInv == DOMAIN listeners \subseteq Keys /\ DOMAIN debounced \subseteq Keys

RenderedInv ==
    /\ head \in Nat \ {0} /\ latest \in 0..head /\ rendered.latest \in 0..head
    /\ rendered.keys \subseteq Keys
    /\ rendered.keys # {} => rendered.latest > 0

ResultsInv ==
    \A k \in DOMAIN results :
        /\ k \in Keys /\ results[k].block \in Nat
        /\ DOMAIN results[k] = {"data", "block", "fetching"}
        /\ results[k].data = Null \/ results[k].data = [of |-> k, at |-> results[k].block]

FetchInv ==
    \A f \in fetches :
        /\ f.min \in 1..head
        /\ f.calls = f.into /\ f.into \in Seq(Keys)

StoreInv == ListenersInv /\ RenderedInv /\ ResultsInv /\ FetchInv

-----------------------------------------------------------------------------
(* Any set of keys can be listed.                                          *)
LEMMA ListedKeys ==
  ASSUME NEW K, K \subseteq Keys
  PROVE  SetToSeq(K) \in Seq(Keys) /\ (K # {} => Len(SetToSeq(K)) > 0)
<1>1. IsFiniteSet(K)
  BY CallsAssumption, FS_Subset
<1> DEFINE n == Cardinality(K)
<1>2. n \in Nat /\ ExistsBijection(1..n, K)
  BY <1>1, FS_CardinalityType
<1>3. \E f \in [1..n -> K] : IsInjective(f)
  BY <1>2 DEF ExistsBijection, Bijection, Injection
<1>4. SetToSeq(K) \in [1..n -> K]
  BY <1>3 DEF SetToSeq
<1>5. SetToSeq(K) \in Seq(Keys) /\ Len(SetToSeq(K)) = n
  BY <1>2, <1>4
<1>6. K # {} => n > 0
  BY <1>1, <1>2, FS_EmptySet
<1> QED BY <1>2, <1>5, <1>6

LEMMA CeilDivType ==
  ASSUME NEW a \in Nat, NEW b \in Nat \ {0}
  PROVE  CeilDiv(a, b) \in Nat /\ (a > 0 => CeilDiv(a, b) > 0)
<1> DEFINE x == a + b - 1
           q == x \div b
<1>1. x \in Nat
  OBVIOUS
<1>2. q \in Int /\ b * q <= x /\ x < b * q + b
  BY <1>1
<1>3. q >= 0
  BY <1>1, <1>2
<1>4. a > 0 => q > 0
  <2> SUFFICES ASSUME a > 0, q = 0 PROVE FALSE
    BY <1>2, <1>3
  <2>1. b * q = 0
    OBVIOUS
  <2> QED BY <1>2, <2>1
<1> QED BY <1>2, <1>3, <1>4 DEF CeilDiv

(* However a list is cut, the answers of a chunk go under its own calls.   *)
LEMMA ChunksMatch ==
  ASSUME NEW items \in Seq(Keys), Len(items) > 0, NEW i \in 1..Len(chunkArray(items))
  PROVE  /\ chunkArray(items)[i].calls = AnsweredKeys(items, i)
         /\ AnsweredKeys(items, i) \in Seq(Keys)
<1> DEFINE len   == Len(items)
           n     == CeilDiv(len, ChunkSize)
           size  == CeilDiv(len, n)
           first == (i - 1) * size
           last  == IF i * size < len THEN i * size ELSE len
           part == SubSeq(items, first + 1, last)
<1>1. len \in Nat /\ len > 0
  OBVIOUS
<1>2. n \in Nat \ {0}
  <2>1. ChunkSize \in Nat \ {0}
    BY CallsAssumption
  <2>2. CeilDiv(len, ChunkSize) \in Nat /\ CeilDiv(len, ChunkSize) > 0
    BY <1>1, <2>1, CeilDivType
  <2> QED BY <2>2
<1>3. size \in Nat
  BY <1>1, <1>2, CeilDivType
<1> HIDE DEF n, size
<1>4. i \in 1..n /\ chunkArray(items)[i] = [first |-> first, calls |-> part]
  BY <1>2 DEF chunkArray, n, size
<1>5. first \in Nat /\ i * size \in Nat
  <2>1. i \in Nat /\ i - 1 \in Nat
    BY <1>2, <1>4
  <2>2. \A a, b \in Nat : a * b \in Nat
    OBVIOUS
  <2> QED BY <1>3, <2>1, <2>2
<1>6. last \in Nat /\ last <= len
  BY <1>1, <1>5
<1> HIDE DEF first, last
<1>7. \A j \in (first + 1)..last : items[j] \in Keys
  BY <1>1, <1>5, <1>6
<1>8. /\ part \in Seq(Keys)
      /\ Len(part) = IF first + 1 <= last THEN last - (first + 1) + 1 ELSE 0
  BY <1>5, <1>6, <1>7, SubSeqProperties
<1> HIDE DEF part
<1>9. AnsweredKeys(items, i) = SubSeq(items, first + 1, first + Len(part))
  <2>1. chunkArray(items)[i].first = first /\ chunkArray(items)[i].calls = part
    BY <1>4
  <2> QED BY <2>1, Zenon DEF AnsweredKeys
<1>10. CASE first + 1 <= last
  <2>1. first + Len(part) = last
    BY <1>5, <1>6, <1>8, <1>10
  <2> QED BY <1>4, <1>8, <1>9, <2>1 DEF part
<1>11. CASE ~(first + 1 <= last)
  <2>1. Len(part) = 0 /\ first + Len(part) < first + 1 /\ last < first + 1
    BY <1>5, <1>6, <1>8, <1>11
  <2>2. part = << >> /\ AnsweredKeys(items, i) = << >>
    BY <1>5, <1>6, <1>9, <2>1, SubSeqEmpty DEF part
  <2> QED BY <1>4, <1>8, <2>2
<1> QED BY <1>10, <1>11

-----------------------------------------------------------------------------
LEMMA InitStore == Init => StoreInv
BY DEF Init, StoreInv, ListenersInv, RenderedInv, ResultsInv, FetchInv

(* What is out of date is a listed key, in a block after the first.        *)
LEMMA OutdatedKeys ==
  ASSUME StoreInv
  PROVE  /\ Dependencies.keys \subseteq Keys /\ Dependencies.latest = latest
         /\ Dependencies.keys # {} => latest > 0
BY DEF Dependencies, outdatedListeningKeys, activeListeningKeys, StoreInv, ListenersInv, RenderedInv

(* The steps that ask for nothing and answer nothing.                      *)
LEMMA QuietStep ==
  ASSUME StoreInv,
         \/ Grow \/ Render \/ SettleListeners
         \/ \E b \in 1..head : UpdateBlockNumber(b)
         \/ \E h \in Hooks : Mount(h) \/ Unmount(h)
  PROVE  StoreInv' /\ UNCHANGED results /\ fetches' = fetches
<1>1. CASE Grow
  BY <1>1 DEF Grow, listenVars, fetchVars, StoreInv, ListenersInv, RenderedInv, ResultsInv, FetchInv
<1>2. CASE Render
  BY <1>2, OutdatedKeys DEF Render, listenVars, StoreInv, ListenersInv, RenderedInv, ResultsInv, FetchInv
<1>3. CASE SettleListeners
  BY <1>3 DEF SettleListeners, fetchVars, StoreInv, ListenersInv, RenderedInv, ResultsInv, FetchInv
<1>4. ASSUME NEW b \in 1..head, UpdateBlockNumber(b)
      PROVE  StoreInv' /\ UNCHANGED <<results, fetches>>
  BY <1>4 DEF UpdateBlockNumber, listenVars, fetchVars,
              StoreInv, ListenersInv, RenderedInv, ResultsInv, FetchInv
<1>5. ASSUME NEW h \in Hooks, Mount(h) \/ Unmount(h)
      PROVE  StoreInv' /\ UNCHANGED <<results, fetches>>
  <2>1. Calls[h] \subseteq Keys
    BY CallsAssumption
  <2>2. ListenersInv'
    BY <1>5, <2>1 DEF Mount, Unmount, StoreInv, ListenersInv
  <2> QED BY <1>5, <2>2 DEF Mount, Unmount, fetchVars, StoreInv, RenderedInv, ResultsInv, FetchInv
<1> QED BY <1>1, <1>2, <1>3, <1>4, <1>5 DEF Grow, Render, SettleListeners, fetchVars

(* The effect marks keys as being asked for; what they show stays.         *)
LEMMA EffectStep ==
  ASSUME StoreInv, RunEffect
  PROVE  /\ StoreInv'
         /\ \A k \in Keys : (IF k \in DOMAIN results' THEN results'[k].data ELSE Null)
                            = (IF k \in DOMAIN results THEN results[k].data ELSE Null)
<1> USE DEF StoreInv
<1> DEFINE keys == SetToSeq(rendered.keys)
           n    == Len(chunkArray(keys))
           ids  == SetToSeq(FreshIds(n, {f.id : f \in fetches}))
           new  == {[id |-> ids[i], calls |-> chunkArray(keys)[i].calls,
                     into |-> AnsweredKeys(keys, i), min |-> rendered.latest] : i \in 1..n}
<1>1. UNCHANGED <<head, latest, listeners, debounced, rendered>>
  BY DEF RunEffect, listenVars
<1>2. ListenersInv' /\ RenderedInv'
  BY <1>1 DEF ListenersInv, RenderedInv
<1>3. CASE rendered.keys = {}
  BY <1>1, <1>2, <1>3 DEF RunEffect, ResultsInv, FetchInv
<1>4. CASE rendered.keys # {}
  <2>1. /\ fetchingMulticallResults(rendered.keys, rendered.latest)
        /\ fetches' = Kept \union new
    BY <1>4 DEF RunEffect
  <2>2. rendered.latest \in 1..head /\ head \in Nat /\ rendered.keys \subseteq Keys
    BY <1>4 DEF RenderedInv
  <2>3. \A f \in new : f.min \in 1..head /\ f.calls = f.into /\ f.into \in Seq(Keys)
    <3>1. keys \in Seq(Keys) /\ Len(keys) > 0
      BY <1>4, <2>2, ListedKeys
    <3>2. \A i \in 1..n : chunkArray(keys)[i].calls = AnsweredKeys(keys, i)
                          /\ AnsweredKeys(keys, i) \in Seq(Keys)
      BY <3>1, ChunksMatch
    <3> HIDE DEF keys, n, ids
    <3> SUFFICES ASSUME NEW i \in 1..n,
                        NEW f, f = [id |-> ids[i], calls |-> chunkArray(keys)[i].calls,
                                    into |-> AnsweredKeys(keys, i), min |-> rendered.latest]
                 PROVE  f.min \in 1..head /\ f.calls = f.into /\ f.into \in Seq(Keys)
      OBVIOUS
    <3>3. /\ f.min = rendered.latest /\ f.calls = chunkArray(keys)[i].calls
          /\ f.into = AnsweredKeys(keys, i)
      OBVIOUS
    <3> QED BY <2>2, <3>2, <3>3
  <2>4. Kept \subseteq fetches
    BY DEF Kept
  <2>5. FetchInv'
    BY <1>1, <2>1, <2>3, <2>4 DEF FetchInv
  <2>6. /\ DOMAIN results' = DOMAIN results \union rendered.keys
        /\ \A k \in DOMAIN results' :
             IF k \in DOMAIN results
             THEN /\ results'[k].data = results[k].data /\ results'[k].block = results[k].block
                  /\ DOMAIN results'[k] = DOMAIN results[k]
             ELSE /\ results'[k].data = Null /\ results'[k].block = 0
                  /\ DOMAIN results'[k] = {"data", "block", "fetching"}
    <3>1. ASSUME NEW k \in DOMAIN results'
          PROVE  IF k \in DOMAIN results
                 THEN \/ results'[k] = results[k]
                      \/ results'[k] = [results[k] EXCEPT !.fetching = rendered.latest]
                 ELSE results'[k] = [data |-> Null, block |-> 0, fetching |-> rendered.latest]
      BY <2>1 DEF fetchingMulticallResults
    <3>2. DOMAIN results' = DOMAIN results \union rendered.keys
      BY <2>1 DEF fetchingMulticallResults
    <3>3. ASSUME NEW k \in DOMAIN results
          PROVE  LET r == [results[k] EXCEPT !.fetching = rendered.latest] IN
                 /\ r.data = results[k].data /\ r.block = results[k].block
                 /\ DOMAIN r = DOMAIN results[k]
      <4>1. "data" \in DOMAIN results[k] /\ "block" \in DOMAIN results[k]
        BY DEF ResultsInv
      <4> QED BY <4>1
    <3>4. ASSUME NEW k \in DOMAIN results', k \in DOMAIN results
          PROVE  /\ results'[k].data = results[k].data /\ results'[k].block = results[k].block
                 /\ DOMAIN results'[k] = DOMAIN results[k]
      BY <3>1, <3>3, <3>4
    <3>5. ASSUME NEW k \in DOMAIN results', k \notin DOMAIN results
          PROVE  /\ results'[k].data = Null /\ results'[k].block = 0
                 /\ DOMAIN results'[k] = {"data", "block", "fetching"}
      <4>1. results'[k] = [data |-> Null, block |-> 0, fetching |-> rendered.latest]
        BY <3>1, <3>5
      <4> QED BY <4>1
    <3> QED BY <3>2, <3>4, <3>5
  <2>7. ResultsInv'
    BY <2>2, <2>6 DEF ResultsInv
  <2> QED BY <1>2, <2>5, <2>6, <2>7
<1> QED BY <1>3, <1>4

(* An answer: the keys it is put under show their own call's, in its block.*)
LEMMA AnswerStep ==
  ASSUME StoreInv, NEW f \in fetches, NEW b \in fetchChunk(f), Answer(f, b)
  PROVE  /\ StoreInv' /\ head' = head /\ b \in 1..head
         /\ \E K \in SUBSET Keys :
              /\ \A k \in K : k \in DOMAIN results => results[k].block <= b
              /\ \A k \in K : k \in DOMAIN results' /\ results'[k].data = [of |-> k, at |-> b]
              /\ \A k \in Keys \ K :
                    /\ k \in DOMAIN results' <=> k \in DOMAIN results
                    /\ k \in DOMAIN results => results'[k].data = results[k].data
<1> USE DEF StoreInv
<1> DEFINE into == {f.into[i] : i \in DOMAIN f.into}
           at(k) == CHOOSE i \in DOMAIN f.into : f.into[i] = k
           K    == {k \in into : k \in DOMAIN results => results[k].block <= b}
<1>1. f.min \in 1..head /\ f.calls = f.into /\ f.into \in Seq(Keys) /\ head \in Nat
  BY DEF FetchInv, RenderedInv
<1>2. b \in 1..head
  BY <1>1 DEF fetchChunk
<1>3. UNCHANGED <<head, latest, listeners, debounced, rendered>> /\ fetches' = fetches \ {f}
  BY DEF Answer, listenVars
<1>4. ListenersInv' /\ RenderedInv' /\ FetchInv'
  BY <1>3 DEF ListenersInv, RenderedInv, FetchInv
<1>5. into \subseteq Keys /\ K \subseteq into
  BY <1>1
<1>6. /\ DOMAIN results' = DOMAIN results \union into
      /\ \A k \in DOMAIN results' :
           results'[k] = IF k \in K
                         THEN [data |-> [of |-> f.calls[at(k)], at |-> b], block |-> b, fetching |-> 0]
                         ELSE results[k]
  <2>1. updateMulticallResults(f, b)
    BY DEF Answer
  <2> QED BY <2>1 DEF updateMulticallResults
<1>7. \A k \in K : f.calls[at(k)] = k
  <2> SUFFICES ASSUME NEW k \in K PROVE f.into[at(k)] = k
    BY <1>1
  <2>1. \E i \in DOMAIN f.into : f.into[i] = k
    OBVIOUS
  <2> QED BY <2>1
<1> HIDE DEF into, at
<1>8. \A k \in DOMAIN results' :
        IF k \in K THEN results'[k] = [data |-> [of |-> k, at |-> b], block |-> b, fetching |-> 0]
                   ELSE results'[k] = results[k]
  BY <1>6, <1>7
<1>9. \A k \in DOMAIN results' : k \in K \/ k \in DOMAIN results
  BY <1>6
<1>10. ResultsInv'
  <2> SUFFICES ASSUME NEW k \in DOMAIN results'
               PROVE  /\ k \in Keys /\ results'[k].block \in Nat
                      /\ DOMAIN results'[k] = {"data", "block", "fetching"}
                      /\ \/ results'[k].data = Null
                         \/ results'[k].data = [of |-> k, at |-> results'[k].block]
    BY DEF ResultsInv
  <2>1. CASE k \in K
    <3>1. results'[k] = [data |-> [of |-> k, at |-> b], block |-> b, fetching |-> 0]
      BY <1>8, <2>1
    <3>2. k \in Keys /\ b \in Nat
      BY <1>1, <1>2, <1>5, <2>1
    <3> QED BY <3>1, <3>2
  <2>2. CASE k \notin K
    <3>1. k \in DOMAIN results /\ results'[k] = results[k]
      BY <1>8, <1>9, <2>2
    <3> QED BY <3>1 DEF ResultsInv
  <2> QED BY <2>1, <2>2
<1>11. \A k \in Keys \ K : k \in DOMAIN results' <=> k \in DOMAIN results
  BY <1>6, <1>9
<1>12. K \in SUBSET Keys /\ K \subseteq DOMAIN results'
  BY <1>5, <1>6
<1>13. \A k \in K : k \in DOMAIN results => results[k].block <= b
  OBVIOUS
<1> HIDE DEF K
<1>14. \A k \in K : k \in DOMAIN results' /\ results'[k].data = [of |-> k, at |-> b]
  BY <1>8, <1>12
<1>15. \A k \in Keys \ K : k \in DOMAIN results => results'[k].data = results[k].data
  BY <1>8, <1>11
<1> QED BY <1>2, <1>3, <1>4, <1>10, <1>11, <1>12, <1>13, <1>14, <1>15

(* A failure: some keys show nothing any more.                             *)
LEMMA FailStep ==
  ASSUME StoreInv, NEW f \in fetches, Fail(f)
  PROVE  /\ StoreInv' /\ head' = head
         /\ DOMAIN results' = DOMAIN results
         /\ \A k \in DOMAIN results : results'[k].data \in {Null, results[k].data}
<1> USE DEF StoreInv
<1>1. UNCHANGED <<head, latest, listeners, debounced, rendered>> /\ fetches' = fetches \ {f}
  BY DEF Fail, listenVars
<1>2. ListenersInv' /\ RenderedInv' /\ FetchInv'
  BY <1>1 DEF ListenersInv, RenderedInv, FetchInv
<1>3. /\ DOMAIN results' = DOMAIN results
      /\ \A k \in DOMAIN results :
           \/ results'[k] = results[k]
           \/ results'[k] = [data |-> Null, block |-> f.min, fetching |-> 0]
  BY DEF Fail, errorFetchingMulticallResults
<1>4. f.min \in Nat
  BY DEF FetchInv, RenderedInv
<1>5. ResultsInv'
  <2> SUFFICES ASSUME NEW k \in DOMAIN results
               PROVE  /\ k \in Keys /\ results'[k].block \in Nat
                      /\ DOMAIN results'[k] = {"data", "block", "fetching"}
                      /\ \/ results'[k].data = Null
                         \/ results'[k].data = [of |-> k, at |-> results'[k].block]
    BY <1>3 DEF ResultsInv
  <2>1. CASE results'[k] = results[k]
    BY <2>1 DEF ResultsInv
  <2>2. CASE results'[k] = [data |-> Null, block |-> f.min, fetching |-> 0]
    <3>1. k \in Keys
      BY DEF ResultsInv
    <3> QED BY <1>4, <2>2, <3>1
  <2> QED BY <1>3, <2>1, <2>2
<1> QED BY <1>1, <1>2, <1>3, <1>5

LEMMA StepStore == StoreInv /\ [Next]_vars => StoreInv'
<1> SUFFICES ASSUME StoreInv, [Next]_vars PROVE StoreInv'
  OBVIOUS
<1>1. CASE UNCHANGED vars
  BY <1>1 DEF vars, listenVars, fetchVars, StoreInv, ListenersInv, RenderedInv, ResultsInv, FetchInv
<1>2. CASE RunEffect
  BY <1>2, EffectStep
<1>3. ASSUME NEW f \in fetches, Settle(f) PROVE StoreInv'
  BY <1>3, AnswerStep, FailStep DEF Settle
<1> QED BY <1>1, <1>2, <1>3, QuietStep DEF Next, Callback

(* For any keys, hooks, chunk size and chain, however requests fail and in *)
(* whatever order they come back: every key shows the answer to its own    *)
(* call in a block of the chain, and never an older one after a newer.     *)
THEOREM StoreImplementsView == Spec => ImplementsView
<1> DEFINE answer == [k \in Keys |-> IF k \in DOMAIN results THEN results[k].data ELSE Null]
<1>1. Init => Shown!Init
  BY DEF Init, Shown!Init
<1>2. StoreInv /\ [Next]_vars => [Shown!Next]_Shown!vars
  <2> SUFFICES ASSUME StoreInv, [Next]_vars PROVE [Shown!Next]_Shown!vars
    OBVIOUS
  <2>1. CASE Grow
    BY <2>1, QuietStep DEF Grow, Shown!Next, Shown!Grow
  <2>2. CASE \/ Render \/ SettleListeners
             \/ \E b \in 1..head : UpdateBlockNumber(b)
             \/ \E h \in Hooks : Mount(h) \/ Unmount(h)
    <3>1. UNCHANGED results
      BY <2>2, QuietStep
    <3>2. UNCHANGED head
      BY <2>2 DEF Render, SettleListeners, UpdateBlockNumber, Mount, Unmount
    <3> QED BY <3>1, <3>2 DEF Shown!vars
  <2>3. CASE RunEffect
    <3>1. answer' = answer
      BY <2>3, EffectStep
    <3>2. UNCHANGED head
      BY <2>3 DEF RunEffect
    <3> QED BY <3>1, <3>2 DEF Shown!vars
  <2>4. ASSUME NEW f \in fetches, NEW b \in fetchChunk(f), Answer(f, b)
        PROVE  Shown!Next
    <3>1. b \in 1..head /\ UNCHANGED head
      BY <2>4, AnswerStep
    <3>2. PICK K \in SUBSET Keys :
            /\ \A k \in K : k \in DOMAIN results => results[k].block <= b
            /\ \A k \in K : k \in DOMAIN results' /\ results'[k].data = [of |-> k, at |-> b]
            /\ \A k \in Keys \ K :
                  /\ k \in DOMAIN results' <=> k \in DOMAIN results
                  /\ k \in DOMAIN results => results'[k].data = results[k].data
      BY <2>4, AnswerStep
    <3>3. \A k \in K : answer[k] = Null \/ answer[k].at <= b
      <4> SUFFICES ASSUME NEW k \in K, k \in DOMAIN results, results[k].data # Null
                   PROVE  results[k].data.at <= b
        OBVIOUS
      <4>1. results[k].data = [of |-> k, at |-> results[k].block]
        BY DEF StoreInv, ResultsInv
      <4> QED BY <3>2, <4>1
    <3>4. answer' = [k \in Keys |-> IF k \in K THEN [of |-> k, at |-> b] ELSE answer[k]]
      BY <3>2
    <3>5. Shown!Show(K, b)
      BY <3>1, <3>3, <3>4 DEF Shown!Show
    <3> QED BY <3>1, <3>5 DEF Shown!Next
  <2>5. ASSUME NEW f \in fetches, Fail(f)
        PROVE  Shown!Next
    <3> PICK K : K = {k \in Keys : k \in DOMAIN results /\ results'[k].data = Null}
      OBVIOUS
    <3>1. answer' = [k \in Keys |-> IF k \in K THEN Null ELSE answer[k]]
      BY <2>5, FailStep
    <3>2. K \in SUBSET Keys /\ UNCHANGED head
      BY <2>5, FailStep
    <3>3. Shown!Blank(K)
      BY <3>1, <3>2 DEF Shown!Blank
    <3> QED BY <3>2, <3>3 DEF Shown!Next
  <2>6. CASE UNCHANGED vars
    BY <2>6 DEF vars, fetchVars, Shown!vars
  <2> QED BY <2>1, <2>2, <2>3, <2>4, <2>5, <2>6 DEF Next, Callback, Settle
<1> QED BY <1>1, <1>2, InitStore, StepStore, PTL DEF Spec, ImplementsView, Shown!Spec

-----------------------------------------------------------------------------
(***************************************************************************)
(* The token lists.                                                        *)
(*                                                                         *)
(* An answer is compared with the release in use when it arrives; nothing  *)
(* changes that release while another waits, but what takes the one that   *)
(* waits.                                                                  *)
(***************************************************************************)

ListOK(l) ==
    /\ l = [current |-> l.current, pending |-> l.pending, loading |-> l.loading, error |-> l.error]
    /\ l.pending # None => l.current # None /\ getVersionUpgrade(l.current, l.pending) # NONE

ListsOK(f) ==
    /\ f = [u \in DOMAIN f |-> f[u]]
    /\ \A u \in DOMAIN f : ListOK(f[u])

ListsInv == ListsOK(byUrl)

LEMMA NewListOK == ListOK(NEW_LIST_STATE)
BY DEF ListOK, NEW_LIST_STATE

LEMMA ListOfOK ==
  ASSUME ListsInv, NEW u
  PROVE  ListOK(ListOf(u))
BY NewListOK DEF ListsInv, ListsOK, ListOf

(* To mark a list as loading, or not, changes nothing else of it. *)
LEMMA MarkedOK ==
  ASSUME NEW l, ListOK(l), NEW i, NEW e
  PROVE  ListOK([l EXCEPT !.loading = i, !.error = e]) /\ ListOK([l EXCEPT !.loading = i])
<1>1. PICK c, p, o, r : l = [current |-> c, pending |-> p, loading |-> o, error |-> r]
  BY DEF ListOK
<1>2. p # None => c # None /\ getVersionUpgrade(c, p) # NONE
  BY <1>1 DEF ListOK
<1>3. PICK m : m = [l EXCEPT !.loading = i, !.error = e]
  OBVIOUS
<1>4. PICK n : n = [l EXCEPT !.loading = i]
  OBVIOUS
<1>5. m = [current |-> c, pending |-> p, loading |-> i, error |-> e]
  BY <1>1, <1>3
<1>6. n = [current |-> c, pending |-> p, loading |-> i, error |-> r]
  BY <1>1, <1>4
<1>7. \A x, y : ListOK([current |-> c, pending |-> p, loading |-> x, error |-> y])
  BY <1>2 DEF ListOK
<1>8. ListOK(m)
  BY <1>5, <1>7
<1>9. ListOK(n)
  BY <1>6, <1>7
<1>10. ListOK([l EXCEPT !.loading = i, !.error = e])
  BY <1>3, <1>8
<1>11. ListOK([l EXCEPT !.loading = i])
  BY <1>4, <1>9
<1> QED
  BY <1>10, <1>11

(* A list that is taken into use leaves nothing that waits. *)
LEMMA TakenOK ==
  ASSUME NEW l, ListOK(l)
  PROVE  ListOK([l EXCEPT !.current = l.pending, !.pending = None])
<1>1. PICK c, p, o, r : l = [current |-> c, pending |-> p, loading |-> o, error |-> r]
  BY DEF ListOK
<1>2. PICK m : m = [l EXCEPT !.current = l.pending, !.pending = None]
  OBVIOUS
<1>3. m = [current |-> p, pending |-> None, loading |-> o, error |-> r]
  BY <1>1, <1>2
<1>4. ListOK([current |-> p, pending |-> None, loading |-> o, error |-> r])
  BY DEF ListOK
<1> QED
  BY <1>2, <1>3, <1>4

LEMMA OneChanges ==
  ASSUME NEW f, ListsOK(f), NEW u \in DOMAIN f, NEW l, ListOK(l),
         NEW g, g = [x \in DOMAIN f |-> IF x = u THEN l ELSE f[x]]
  PROVE  ListsOK(g)
BY DEF ListsOK

LEMMA WithOK ==
  ASSUME NEW f, ListsOK(f), NEW u, NEW l, ListOK(l)
  PROVE  ListsOK(With(f, u, l))
BY DEF With, ListsOK

LEMMA WithoutOK ==
  ASSUME NEW f, ListsOK(f), NEW u
  PROVE  ListsOK(Without(f, u))
BY DEF Without, ListsOK

LEMMA AnsweredOK ==
  ASSUME NEW c, NEW p, NEW o, NEW r, NEW l,
         l = [current |-> c, pending |-> p, loading |-> o, error |-> r],
         NEW i, NEW e, NEW s, c # None, getVersionUpgrade(c, s) # NONE
  PROVE  ListOK([l EXCEPT !.loading = i, !.error = e, !.pending = s])
<1>1. PICK m : m = [l EXCEPT !.loading = i, !.error = e, !.pending = s]
  OBVIOUS
<1>2. m = [current |-> c, pending |-> s, loading |-> i, error |-> e]
  BY <1>1
<1>3. ListOK([current |-> c, pending |-> s, loading |-> i, error |-> e])
  BY DEF ListOK
<1>4. ListOK(m)
  BY <1>2, <1>3
<1> QED
  BY <1>1, <1>4

LEMMA FulfilledKeeps ==
  ASSUME ListsInv, NEW u, NEW i, NEW s, fetchTokenListFulfilled(u, i, s)
  PROVE  ListsInv'
<1> DEFINE l == ListOf(u)
<1>1. ListOK(l)
  BY ListOfOK
<1>2. CASE l.current = None
  <2>1. byUrl' = With(byUrl, u, [current |-> s, pending |-> None, loading |-> None, error |-> FALSE])
    BY <1>2 DEF fetchTokenListFulfilled
  <2>2. ListOK([current |-> s, pending |-> None, loading |-> None, error |-> FALSE])
    BY DEF ListOK
  <2> QED
    BY <2>1, <2>2, WithOK DEF ListsInv
<1>3. CASE l.current # None /\ getVersionUpgrade(l.current, s) # NONE /\ l.loading \in {None, i}
  <2>1. u \in DOMAIN byUrl /\ l = byUrl[u]
    BY <1>3 DEF ListOf, NEW_LIST_STATE
  <2>2. byUrl' = [byUrl EXCEPT ![u].loading = None, ![u].error = FALSE, ![u].pending = s]
    BY <1>3 DEF fetchTokenListFulfilled
  <2>3. PICK c, p, o, r : byUrl[u] = [current |-> c, pending |-> p, loading |-> o, error |-> r]
    BY <1>1, <2>1 DEF ListOK
  <2>4. PICK m : m = [byUrl[u] EXCEPT !.loading = None, !.error = FALSE, !.pending = s]
    OBVIOUS
  <2>5. byUrl' = [x \in DOMAIN byUrl |-> IF x = u THEN m ELSE byUrl[x]]
    BY <2>1, <2>2, <2>4 DEF ListsInv, ListsOK
  <2>6. c # None /\ getVersionUpgrade(c, s) # NONE
    BY <1>3, <2>1, <2>3
  <2>7. ListOK([byUrl[u] EXCEPT !.loading = None, !.error = FALSE, !.pending = s])
    BY <2>3, <2>6, AnsweredOK
  <2>8. ListOK(m)
    BY <2>4, <2>7
  <2> QED
    BY <2>1, <2>5, <2>8, OneChanges DEF ListsInv
<1>4. CASE l.current # None /\ ~(getVersionUpgrade(l.current, s) # NONE /\ l.loading \in {None, i})
  <2>1. byUrl' = byUrl
    BY <1>4 DEF fetchTokenListFulfilled
  <2> QED
    BY <2>1 DEF ListsInv
<1> QED
  BY <1>2, <1>3, <1>4

(* The lists a page of a version starts with, and what it makes of those   *)
(* that are saved.                                                         *)
LEMMA InitialOK ==
  ASSUME NEW version
  PROVE  ListsOK(initialLists(version))
<1>1. PICK n, b, f : n = None /\ b = Bundled /\ f = FALSE
  OBVIOUS
<1>2. PICK l : l = [current |-> n, pending |-> n, loading |-> n, error |-> f]
  OBVIOUS
<1>3. PICK m : m = [l EXCEPT !.current = b]
  OBVIOUS
<1>4. m = [current |-> b, pending |-> n, loading |-> n, error |-> f]
  BY <1>2, <1>3
<1>5. ListOK(m)
  BY <1>1, <1>4 DEF ListOK
<1>6. l = NEW_LIST_STATE
  BY <1>1, <1>2 DEF NEW_LIST_STATE
<1>7. initialLists(version) = [u \in Defaults[version] \union {DefaultUrl} |->
                                 IF u = DefaultUrl THEN m ELSE l]
  BY <1>1, <1>3, <1>6 DEF initialLists
<1> QED
  BY <1>5, <1>6, <1>7, NewListOK DEF ListsOK

LEMMA UpdatedOK ==
  ASSUME NEW lists, ListsOK(lists), NEW last, NEW version
  PROVE  ListsOK(updateVersion(lists, last, version))
<1>1. CASE last = None
  BY <1>1, InitialOK DEF updateVersion
<1>2. CASE last # None
  <2> DEFINE added == Defaults[version] \ Defaults[last]
             kept == (DOMAIN lists \union added) \ (Defaults[last] \ Defaults[version])
  <2>1. updateVersion(lists, last, version)
          = [u \in kept |-> IF u \in added THEN NEW_LIST_STATE ELSE lists[u]]
    BY <1>2 DEF updateVersion
  <2>2. \A u \in kept : u \notin added => u \in DOMAIN lists
    OBVIOUS
  <2> HIDE DEF added, kept
  <2> QED
    BY <2>1, <2>2, NewListOK DEF ListsOK
<1> QED
  BY <1>1, <1>2

LEMMA ListsStep ==
  ASSUME ListsInv, [ListsNext]_listVars
  PROVE  ListsInv'
<1>1. CASE byUrl' = byUrl
  BY <1>1 DEF ListsInv
<1>2. CASE Tick
  <2>1. PICK ids : byUrl' = [u \in DOMAIN byUrl |->
               IF u \in Refreshed THEN [byUrl[u] EXCEPT !.loading = ids[u], !.error = FALSE]
               ELSE byUrl[u]]
    BY <1>2 DEF Tick
  <2> QED
    BY <2>1, MarkedOK DEF ListsInv, ListsOK
<1>3. CASE RunEffects
  <2>1. PICK ids : byUrl' = [u \in DOMAIN byUrl |->
               IF u \in Unloaded THEN [byUrl[u] EXCEPT !.loading = ids[u]]
               ELSE IF u \in Automatic
                    THEN [byUrl[u] EXCEPT !.current = byUrl[u].pending, !.pending = None]
               ELSE byUrl[u]]
    BY <1>3 DEF RunEffects
  <2> QED
    BY <2>1, MarkedOK, TakenOK DEF ListsInv, ListsOK
<1>4. CASE Reload
  <2>1. PICK version : byUrl' = updateVersion(byUrl, lastInit, version)
    BY <1>4 DEF Reload
  <2> QED
    BY <2>1, UpdatedOK DEF ListsInv
<1>5. ASSUME NEW u \in Urls, handleAddList(u) PROVE ListsInv'
  <2>1. PICK i : byUrl' = fetchTokenListPending(byUrl, u, i)
    BY <1>5 DEF handleAddList
  <2>2. byUrl' = With(byUrl, u, [ListOf(u) EXCEPT !.loading = i, !.error = FALSE])
    BY <2>1 DEF fetchTokenListPending, ListOf
  <2>3. ListOK([ListOf(u) EXCEPT !.loading = i, !.error = FALSE])
    BY ListOfOK, MarkedOK
  <2> QED
    BY <2>2, <2>3, WithOK DEF ListsInv
<1>6. ASSUME NEW u \in Urls, handleRemoveList(u) PROVE ListsInv'
  <2>1. byUrl' = Without(byUrl, u)
    BY <1>6 DEF handleRemoveList
  <2> QED
    BY <2>1, WithoutOK DEF ListsInv
<1>7. ASSUME NEW u \in Urls, acceptListUpdate(u) PROVE ListsInv'
  <2>1. /\ ListOf(u).pending # None
        /\ byUrl' = [byUrl EXCEPT ![u].current = byUrl[u].pending, ![u].pending = None]
    BY <1>7 DEF acceptListUpdate
  <2>2. u \in DOMAIN byUrl
    BY <2>1 DEF ListOf, NEW_LIST_STATE
  <2>3. PICK m : m = [byUrl[u] EXCEPT !.current = byUrl[u].pending, !.pending = None]
    OBVIOUS
  <2>4. byUrl' = [x \in DOMAIN byUrl |-> IF x = u THEN m ELSE byUrl[x]]
    BY <2>1, <2>2, <2>3 DEF ListsInv, ListsOK
  <2>5. ListOK(m)
    BY <2>2, <2>3, TakenOK DEF ListsInv, ListsOK
  <2> QED
    BY <2>2, <2>4, <2>5, OneChanges DEF ListsInv
<1>8. ASSUME NEW r \in requests, Fulfilled(r) PROVE ListsInv'
  <2>1. PICK s : fetchTokenListFulfilled(r.url, r.id, s)
    BY <1>8 DEF Fulfilled
  <2> QED
    BY <2>1, FulfilledKeeps
<1>9. ASSUME NEW r \in requests, Rejected(r) PROVE ListsInv'
  <2> DEFINE lists == fetchTokenListRejected(r.url, r.id)
  <2>1. ListsOK(lists)
    <3>1. CASE ListOf(r.url).loading # r.id
      BY <3>1 DEF fetchTokenListRejected, ListsInv
    <3>2. CASE ListOf(r.url).loading = r.id
      <4>1. lists = With(byUrl, r.url, [NEW_LIST_STATE EXCEPT !.error = TRUE])
        BY <3>2 DEF fetchTokenListRejected
      <4>2. ListOK([NEW_LIST_STATE EXCEPT !.error = TRUE])
        <5>1. PICK m : m = [NEW_LIST_STATE EXCEPT !.error = TRUE]
          OBVIOUS
        <5>2. m = [current |-> None, pending |-> None, loading |-> None, error |-> TRUE]
          BY <5>1 DEF NEW_LIST_STATE
        <5>3. ListOK(m)
          BY <5>2 DEF ListOK
        <5> QED
          BY <5>1, <5>3
      <4> HIDE DEF lists
      <4> QED
        BY <4>1, <4>2, WithOK DEF ListsInv
    <3> QED
      BY <3>1, <3>2
  <2>2. byUrl' = lists \/ byUrl' = Without(lists, r.url)
    BY <1>9 DEF Rejected
  <2> HIDE DEF lists
  <2> QED
    BY <2>1, <2>2, WithoutOK DEF ListsInv
<1>10. ASSUME NEW u \in Urls, Publish(u) \/ removePopup(u) PROVE byUrl' = byUrl
  BY <1>10 DEF Publish, removePopup
<1>11. CASE UNCHANGED listVars
  BY <1>1, <1>11 DEF listVars
<1> QED
  BY <1>1, <1>2, <1>3, <1>4, <1>5, <1>6, <1>7, <1>8, <1>9, <1>10, <1>11
  DEF ListsNext, handleAcceptListUpdate, handleAcceptUpdate, EndRequest

(* What waits to be accepted is newer than what is in use, whatever order  *)
(* answers, clicks and reloads come in; see PendingIsNewer in Lists.       *)
THEOREM WaitingIsNewer == ListsSpec => []PendingIsNewer
<1>1. ListsInit => ListsInv
  <2> SUFFICES ASSUME ListsInit PROVE ListsInv
    OBVIOUS
  <2>1. byUrl = initialLists(1)
    BY DEF ListsInit, updateVersion
  <2> QED
    BY <2>1, InitialOK DEF ListsInv
<1>2. ListsInv /\ [ListsNext]_listVars => ListsInv'
  BY ListsStep
<1>3. ListsInv => PendingIsNewer
  BY DEF ListsInv, ListsOK, ListOK, PendingIsNewer
<1> QED
  BY <1>1, <1>2, <1>3, PTL DEF ListsSpec

-----------------------------------------------------------------------------
(***************************************************************************)
(* The bank pages.                                                         *)
(*                                                                         *)
(* The time is the number of calls: a permit that is being signed has a    *)
(* deadline past that of every permit sent so far, and what was kept of it *)
(* is either gone or what the wallet shows.                                *)
(***************************************************************************)

CallOK(c) == c = [hook |-> c.hook, what |-> c.what, args |-> c.args, status |-> c.status]

SentAsSigned(c, i) ==
    /\ c.args.amount = c.args.signed.amount
    /\ c.args.deadline = c.args.signed.deadline
    /\ c.args.signed.deadline \in 1..i

CallsOK(cs) ==
    /\ \E S : cs \in Seq(S)
    /\ \A i \in DOMAIN cs : CallOK(cs[i]) /\ (cs[i].what = "permit" => SentAsSigned(cs[i], i))
    /\ \A i, j \in DOMAIN cs :
        /\ cs[i].what = "permit" /\ cs[j].what = "permit"
        /\ cs[i].args.signed.deadline = cs[j].args.signed.deadline
        => i = j

SigningOK ==
    /\ signing = [amount |-> signing.amount, nonce |-> signing.nonce, deadline |-> signing.deadline]
    /\ signing # NoPermit =>
        /\ signing.deadline \in 1..Len(calls) + 1
        /\ permit # NoPermit => permit = signing
        /\ \A i \in DOMAIN calls :
            calls[i].what = "permit" => calls[i].args.signed.deadline < signing.deadline

BankInv == CallsOK(calls) /\ SigningOK

LEMMA LongerSeq ==
  ASSUME NEW S, NEW cs \in Seq(S), NEW c
  PROVE  /\ Append(cs, c) \in Seq(S \cup {c})
         /\ Len(Append(cs, c)) = Len(cs) + 1
         /\ DOMAIN cs = 1..Len(cs) /\ Len(cs) \in Nat
         /\ DOMAIN Append(cs, c) = 1..Len(cs) + 1
         /\ \A i \in DOMAIN cs : Append(cs, c)[i] = cs[i]
         /\ Append(cs, c)[Len(cs) + 1] = c
<1>1. cs \in Seq(S \cup {c})
  BY SeqDef
<1> QED
  BY <1>1

LEMMA OneMoreCall ==
  ASSUME NEW cs, CallsOK(cs), NEW c, CallOK(c),
         c.what = "permit" => SentAsSigned(c, Len(cs) + 1),
         \A i \in DOMAIN cs : c.what = "permit" /\ cs[i].what = "permit"
             => cs[i].args.signed.deadline # c.args.signed.deadline
  PROVE  CallsOK(Append(cs, c))
<1>1. PICK S : cs \in Seq(S)
  BY DEF CallsOK
<1>2. PICK ds : ds = Append(cs, c)
  OBVIOUS
<1> DEFINE n == Len(cs) + 1
<1>3. /\ ds \in Seq(S \cup {c})
      /\ DOMAIN cs = 1..Len(cs) /\ Len(cs) \in Nat
      /\ DOMAIN ds = 1..n
      /\ \A i \in DOMAIN cs : ds[i] = cs[i]
      /\ ds[n] = c
  BY <1>1, <1>2, LongerSeq
<1>4. \A i \in DOMAIN ds : i \in DOMAIN cs \/ i = n
  BY <1>3
<1>5. n \notin DOMAIN cs
  BY <1>3
<1>6. \A i \in DOMAIN ds : CallOK(ds[i]) /\ (ds[i].what = "permit" => SentAsSigned(ds[i], i))
  BY <1>3, <1>4 DEF CallsOK
<1>7. ASSUME NEW i \in DOMAIN ds, NEW j \in DOMAIN ds,
             ds[i].what = "permit", ds[j].what = "permit",
             ds[i].args.signed.deadline = ds[j].args.signed.deadline
      PROVE  i = j
  BY <1>3, <1>4, <1>7 DEF CallsOK
<1>8. CallsOK(ds)
  BY <1>3, <1>6, <1>7 DEF CallsOK
<1> QED
  BY <1>2, <1>8

(* To give a call another status changes nothing else of it.               *)
LEMMA StatusChanges ==
  ASSUME NEW c, CallOK(c), NEW v, NEW m, m = [c EXCEPT !.status = v]
  PROVE  CallOK(m) /\ m.what = c.what /\ m.args = c.args
<1>1. PICK h, w, a, s : c = [hook |-> h, what |-> w, args |-> a, status |-> s]
  BY DEF CallOK
<1>2. m = [hook |-> h, what |-> w, args |-> a, status |-> v]
  BY <1>1
<1> QED
  BY <1>1, <1>2 DEF CallOK

Alike(ds, cs) ==
    /\ \E S : ds \in Seq(S)
    /\ Len(ds) = Len(cs) /\ DOMAIN ds = DOMAIN cs
    /\ \A i \in DOMAIN cs : CallOK(ds[i]) /\ ds[i].what = cs[i].what /\ ds[i].args = cs[i].args

LEMMA AlikeOK ==
  ASSUME NEW cs, CallsOK(cs), NEW ds, Alike(ds, cs)
  PROVE  CallsOK(ds)
<1>1. \A i \in DOMAIN ds : CallOK(ds[i]) /\ (ds[i].what = "permit" => SentAsSigned(ds[i], i))
  BY DEF CallsOK, Alike, SentAsSigned
<1>2. ASSUME NEW i \in DOMAIN ds, NEW j \in DOMAIN ds,
             ds[i].what = "permit", ds[j].what = "permit",
             ds[i].args.signed.deadline = ds[j].args.signed.deadline
      PROVE  i = j
  BY <1>2 DEF CallsOK, Alike
<1>3. \E S : ds \in Seq(S)
  BY DEF Alike
<1> QED
  BY <1>1, <1>2, <1>3 DEF CallsOK

LEMMA SameLength ==
  ASSUME NEW S, NEW cs \in Seq(S), NEW T, NEW ds, DOMAIN ds = DOMAIN cs,
         \A i \in DOMAIN cs : ds[i] \in T, ds = [i \in DOMAIN ds |-> ds[i]]
  PROVE  ds \in Seq(T) /\ Len(ds) = Len(cs)
<1>1. PICK n \in Nat : cs \in [1..n -> S]
  BY SeqDef
<1>2. ds \in [1..n -> T]
  BY <1>1
<1>3. ds \in Seq(T)
  BY <1>1, <1>2, SeqDef
<1>4. DOMAIN ds = 1..n /\ DOMAIN cs = 1..n
  BY <1>1, <1>2
<1> QED
  BY <1>1, <1>3, <1>4, LenProperties

(* A step that starts no call and asks for no permit.                      *)
LEMMA SameCalls ==
  ASSUME BankInv, NEW k, NEW v, calls' = [calls EXCEPT ![k].status = v] \/ calls' = calls,
         signing' \in {signing, NoPermit}, permit' \in {permit, NoPermit}
  PROVE  BankInv'
<1>1. PICK ds : ds = calls'
  OBVIOUS
<1>2. CallsOK(calls)
  BY DEF BankInv
<1>3. PICK S : calls \in Seq(S)
  BY <1>2 DEF CallsOK
<1>4. Alike(ds, calls)
  <2>1. CASE ds = [calls EXCEPT ![k].status = v]
    <3>1. PICK c : c = calls[k]
      OBVIOUS
    <3>2. PICK m : m = [c EXCEPT !.status = v]
      OBVIOUS
    <3>3. /\ ds = [i \in DOMAIN ds |-> ds[i]] /\ DOMAIN ds = DOMAIN calls
          /\ \A i \in DOMAIN calls : ds[i] = IF i = k THEN m ELSE calls[i]
      BY <2>1, <3>1, <3>2, <1>3
    <3>4. k \in DOMAIN calls => CallOK(m) /\ m.what = calls[k].what /\ m.args = calls[k].args
      BY <3>1, <3>2, StatusChanges, <1>2 DEF CallsOK
    <3>5. \A i \in DOMAIN calls :
            CallOK(ds[i]) /\ ds[i].what = calls[i].what /\ ds[i].args = calls[i].args
      BY <3>3, <3>4, <1>2 DEF CallsOK
    <3>6. \A i \in DOMAIN calls : ds[i] \in S \cup {m}
      BY <3>3, <1>3
    <3>7. ds \in Seq(S \cup {m}) /\ Len(ds) = Len(calls)
      BY <3>3, <3>6, <1>3, SameLength
    <3> QED
      BY <3>3, <3>5, <3>7 DEF Alike
  <2>2. CASE ds = calls
    BY <2>2, <1>2, <1>3 DEF Alike, CallsOK
  <2> QED
    BY <1>1, <2>1, <2>2
<1>5. CallsOK(ds)
  BY <1>2, <1>4, AlikeOK
<1>6. CallsOK(calls)'
  BY <1>1, <1>5 DEF CallsOK
<1>7. SigningOK'
  <2>1. CASE signing' = NoPermit
    BY <2>1 DEF SigningOK, NoPermit
  <2>2. CASE signing' = signing
    BY <1>1, <1>4, <2>2 DEF BankInv, SigningOK, NoPermit, Alike
  <2> QED
    BY <2>1, <2>2
<1> QED
  BY <1>6, <1>7 DEF BankInv

LEMMA EffectsForget == Effects => permit' \in {permit, NoPermit}
BY DEF Effects

LEMMA ClickKeeps ==
  ASSUME BankInv, NEW h, NEW what, what # "permit", NEW args, Click(h, what, args)
  PROVE  BankInv'
<1> DEFINE c == [hook |-> h, what |-> what, args |-> args, status |-> "asked"]
<1>1. calls' = Append(calls, c) /\ signing' = signing /\ permit' \in {permit, NoPermit}
  BY EffectsForget DEF Click, Write
<1>2. PICK ds : ds = calls'
  OBVIOUS
<1>3. CallOK(c) /\ c.what # "permit"
  BY DEF CallOK
<1> HIDE DEF c
<1>4. CallsOK(ds)
  BY <1>1, <1>2, <1>3, OneMoreCall DEF BankInv
<1>5. PICK S : calls \in Seq(S)
  BY DEF BankInv, CallsOK
<1>6. /\ Len(ds) = Len(calls) + 1 /\ Len(calls) \in Nat
      /\ DOMAIN calls = 1..Len(calls) /\ DOMAIN ds = 1..Len(calls) + 1
      /\ \A i \in DOMAIN calls : ds[i] = calls[i]
      /\ ds[Len(calls) + 1] = c
  BY <1>1, <1>2, <1>5, LongerSeq
<1>7. SigningOK'
  <2>1. \A i \in DOMAIN ds : ds[i].what = "permit" => i \in DOMAIN calls /\ ds[i] = calls[i]
    BY <1>3, <1>6
  <2> QED
    BY <1>1, <1>2, <1>6, <2>1 DEF BankInv, SigningOK, NoPermit
<1> QED
  BY <1>2, <1>4, <1>7 DEF BankInv

LEMMA PermitAsked ==
  ASSUME BankInv, handlePermitDeposit
  PROVE  BankInv'
<1>1. PICK n, a : LET message == [amount |-> a, deadline |-> Len(calls) + 1, nonce |-> n]
                  IN  signing' = message /\ permit' = message
  BY DEF handlePermitDeposit
<1>2. calls' = calls
  BY DEF handlePermitDeposit
<1>3. PICK S : calls \in Seq(S)
  BY DEF BankInv, CallsOK
<1>4. \A i \in DOMAIN calls : i < Len(calls) + 1
  BY <1>3
<1>5. \A i \in DOMAIN calls :
        calls[i].what = "permit" => calls[i].args.signed.deadline < Len(calls) + 1
  BY <1>3, <1>4 DEF BankInv, CallsOK, SentAsSigned
<1>6. SigningOK'
  BY <1>1, <1>2, <1>3, <1>5 DEF SigningOK
<1> QED
  BY <1>2, <1>6 DEF BankInv, CallsOK

LEMMA SignedKeeps ==
  ASSUME BankInv, Signed
  PROVE  BankInv'
<1>1. signing # NoPermit /\ signing' = NoPermit /\ permit' \in {permit, NoPermit}
  BY EffectsForget DEF Signed
<1>2. CASE permit = NoPermit
  <2>1. calls' = calls
    BY <1>2 DEF Signed
  <2> QED
    BY <1>1, <2>1, SameCalls
<1>3. CASE permit # NoPermit
  <2>1. permit = signing
    BY <1>1, <1>3 DEF BankInv, SigningOK
  <2>2. PICK s : s = signing
    OBVIOUS
  <2>3. PICK a, n, d : s = [amount |-> a, nonce |-> n, deadline |-> d]
    BY <2>2 DEF BankInv, SigningOK
  <2>4. PICK args : args = [amount |-> a, deadline |-> d, nonce |-> n, signed |-> s]
    OBVIOUS
  <2>5. args.amount = a /\ args.deadline = d /\ args.signed = s
    BY <2>4
  <2>6. PICK c : c = [hook |-> "direct", what |-> "permit", args |-> args, status |-> "asked"]
    OBVIOUS
  <2>7. s.amount = a /\ s.deadline = d /\ s.nonce = n
    BY <2>3
  <2>8. permit = s /\ signing = s
    BY <2>1, <2>2
  <2>9. calls' = Append(calls, c)
    BY <1>3, <2>4, <2>6, <2>7, <2>8 DEF Signed, Write, Sent
  <2>10. CallOK(c) /\ c.args = args
    BY <2>6 DEF CallOK
  <2>11. d \in 1..Len(calls) + 1
    BY <1>1, <2>2, <2>3 DEF BankInv, SigningOK
  <2>12. SentAsSigned(c, Len(calls) + 1)
    BY <2>5, <2>7, <2>10, <2>11 DEF SentAsSigned
  <2>13. c.args.signed.deadline = d
    BY <2>5, <2>7, <2>10
  <2>14. PICK S : calls \in Seq(S)
    BY DEF BankInv, CallsOK
  <2>15. \A i \in DOMAIN calls : calls[i].what = "permit" =>
            calls[i].args.signed.deadline # c.args.signed.deadline
    <3>1. \A i \in DOMAIN calls : calls[i].what = "permit" =>
            calls[i].args.signed.deadline < d /\ calls[i].args.signed.deadline \in 1..i
      BY <1>1, <2>2, <2>3 DEF BankInv, SigningOK, CallsOK, SentAsSigned
    <3> QED
      BY <3>1, <2>11, <2>13, <2>14
  <2>16. CallsOK(Append(calls, c))
    BY <2>10, <2>12, <2>15, OneMoreCall DEF BankInv
  <2>17. CallsOK(calls)'
    BY <2>9, <2>16 DEF CallsOK
  <2>18. SigningOK'
    BY <1>1 DEF SigningOK, NoPermit
  <2> QED
    BY <2>17, <2>18 DEF BankInv
<1> QED
  BY <1>2, <1>3

LEMMA BankStep ==
  ASSUME BankInv, [BankNext]_bankVars
  PROVE  BankInv'
<1>1. ASSUME NEW a, handleApprove(a) \/ handleDeposit(a) \/ handleWithdraw(a) PROVE BankInv'
  BY <1>1, ClickKeeps DEF handleApprove, handleDeposit, handleWithdraw
<1>2. ASSUME NEW a, setAmount(a) PROVE BankInv'
  BY <1>2, SameCalls DEF setAmount, sign
<1>3. CASE handleApprovePermit2 \/ handleApproveDelegate \/ handleDirectDeposit \/ handleBatchDeposit
  BY <1>3, ClickKeeps
  DEF handleApprovePermit2, handleApproveDelegate, handleDirectDeposit, handleBatchDeposit
<1>4. CASE handlePermitDeposit
  BY <1>4, PermitAsked
<1>5. CASE Signed
  BY <1>5, SignedKeeps
<1>6. CASE Refused
  BY <1>6, SameCalls DEF Refused
<1>7. ASSUME NEW i, Send(i) \/ Reject(i) PROVE BankInv'
  <2>1. PICK v : calls' = [calls EXCEPT ![i].status = v]
    BY <1>7 DEF Send, Reject
  <2>2. signing' = signing /\ permit' = permit
    BY <1>7 DEF Send, Reject, sign
  <2> QED
    BY <2>1, <2>2, SameCalls
<1>8. CASE Execute
  <2>1. PICK v : calls' = [calls EXCEPT ![Head(mempool)].status = v]
    BY <1>8 DEF Execute
  <2>2. signing' = signing /\ permit' = permit
    BY <1>8 DEF Execute, sign
  <2> QED
    BY <2>1, <2>2, SameCalls
<1>9. ASSUME NEW h, Receipt(h) PROVE BankInv'
  <2>1. PICK v : calls' = [calls EXCEPT ![hook[h]].status = v]
    BY <1>9 DEF Receipt
  <2>2. signing' = signing /\ permit' \in {permit, NoPermit}
    BY <1>9, EffectsForget DEF Receipt
  <2> QED
    BY <2>1, <2>2, SameCalls
<1>10. ASSUME NEW q, Read(q) PROVE BankInv'
  BY <1>10, SameCalls DEF Read, sign
<1>11. CASE UNCHANGED bankVars
  BY <1>11, SameCalls DEF bankVars
<1> QED
  BY <1>1, <1>2, <1>3, <1>4, <1>5, <1>6, <1>7, <1>8, <1>9, <1>10, <1>11 DEF BankNext

(* A deposit by permit is sent as it was signed, and no signature twice;   *)
(* see PermitAsSigned in BankPage.                                         *)
THEOREM SignedIsSent == BankSpec => []PermitAsSigned
<1>1. BankInit => BankInv
  <2> SUFFICES ASSUME BankInit PROVE BankInv
    OBVIOUS
  <2>1. calls = <<>> /\ signing = NoPermit
    BY DEF BankInit
  <2>2. CallsOK(calls)
    <3>1. calls \in Seq({}) /\ DOMAIN calls = {}
      BY <2>1
    <3> QED
      BY <3>1 DEF CallsOK
  <2> QED
    BY <2>1, <2>2 DEF BankInv, SigningOK, NoPermit
<1>2. BankInv /\ [BankNext]_bankVars => BankInv'
  BY BankStep
<1>3. BankInv => PermitAsSigned
  BY DEF BankInv, CallsOK, SentAsSigned, PermitAsSigned
<1> QED
  BY <1>1, <1>2, <1>3, PTL DEF BankSpec

=============================================================================
