------------------------------- MODULE Scanner -------------------------------
(***************************************************************************)
(* hello_solana/backend: the processes that follow a program (or an        *)
(* address) on chain and report what happens to it.  Four ways of doing    *)
(* the same:                                                               *)
(*   bank   scan_bank.ts: the newest signatures, less those it has seen    *)
(*          (scan_favorites.ts has the same loop);                         *)
(*   coder  scan_favorites_with_coder.ts: the signatures since the last    *)
(*          one, a long page of them;                                      *)
(*   sol    scan_sol_transfers.ts: the same with a short page;             *)
(*   block  scan_favorites_by_block.ts: every block since the last one.    *)
(*                                                                         *)
(* The chain is the sequence of its slots, with at most one transaction    *)
(* that concerns the scanner in each: the number of the slot stands for    *)
(* the signature.  Between two awaited requests a scanner runs alone, so a *)
(* step of it goes from the answer of one request to that of the next; the *)
(* chain grows, and SIGINT arrives, between any two.                       *)
(***************************************************************************)
EXTENDS Naturals, Sequences, FiniteSets

CONSTANTS Limit,       \* signatures in a page: 10 in the code
          PageLimit,   \* and in the long page of coder: 1000
          MaxSlots,    \* bound on the length of the chain
          MaxFaults    \* bound on the requests that fail

ASSUME BoundsAssumption ==
    Limit \in Nat /\ PageLimit \in Nat /\ MaxSlots \in Nat /\ MaxFaults \in Nat

(* What a slot holds for the scanner: nothing, a transaction that does     *)
(* what it looks for, one that does it in a nested call, one that failed.  *)
Kinds == {"none", "direct", "nested", "failed"}

VARIABLES scanner,    \* which of the four runs
          chain,
          pc,         \* "start", "poll", "work", "done", "exited"
          isRunning,
          todo,       \* what is left of the page, or of the blocks, fetched
          newest,     \* signatures[0] or latestSlot of that fetch
          mark,       \* lastProcessedSignature, untilSignature or currentSlot
          processed,  \* processedSignatures, of bank
          records,    \* what has been reported, in order
          from,       \* the length of the chain when the scan began
          faults      \* requests that have failed

scanVars == <<scanner, chain, pc, isRunning, todo, newest, mark, processed, records, from, faults>>

ScanInit ==
    /\ scanner \in {"bank", "coder", "sol", "block"}
    /\ chain = <<>> /\ pc = "start" /\ isRunning = TRUE
    /\ todo = {} /\ newest = 0 /\ mark = 0 /\ processed = {}
    /\ records = <<>> /\ from = 0 /\ faults = 0

-----------------------------------------------------------------------------
(* The node: the transactions in a set of slots, and getSignaturesForAddress, *)
(* the n newest transactions after a given one.                               *)
Txs == {s \in DOMAIN chain : chain[s] # "none"}
After(s) == {t \in Txs : t > s}
Page(n, until) == {s \in Txs : s > until /\ Cardinality(After(s)) < n}

LatestTx == IF Txs = {} THEN 0 ELSE CHOOSE s \in Txs : After(s) = {}

ChainGrows ==
    /\ Len(chain) < MaxSlots
    /\ \E k \in Kinds : chain' = Append(chain, k)
    /\ UNCHANGED <<scanner, pc, isRunning, todo, newest, mark, processed, records, from, faults>>

Fault ==
    /\ faults < MaxFaults
    /\ faults' = faults + 1

SIGINT ==
    /\ isRunning /\ pc \notin {"done", "exited"}
    /\ isRunning' = FALSE
    /\ UNCHANGED <<scanner, chain, pc, todo, newest, mark, processed, records, from, faults>>

-----------------------------------------------------------------------------
(* The start: what is on chain by now is marked, not reported.              *)

StartBank ==
    /\ mark' = LatestTx
    /\ processed' = IF Txs = {} THEN {} ELSE {LatestTx}

StartCursor == mark' = LatestTx /\ UNCHANGED processed

StartBlock == mark' = Len(chain) /\ UNCHANGED processed

Start ==
    /\ pc = "start" /\ pc' = "poll"
    /\ \/ scanner = "bank" /\ StartBank
       \/ scanner \in {"coder", "sol"} /\ StartCursor
       \/ scanner = "block" /\ StartBlock
    /\ newest' = mark' /\ from' = Len(chain)
    /\ UNCHANGED <<scanner, chain, isRunning, todo, records, faults>>

(* Nothing catches a failure of the first request but main. *)
StartFails ==
    /\ pc = "start" /\ pc' = "exited"
    /\ Fault
    /\ UNCHANGED <<scanner, chain, isRunning, todo, newest, mark, processed, records, from>>

-----------------------------------------------------------------------------
(* A poll.  A fetch with nothing new in it changes nothing but the time.    *)

(* Mutant: the page is not filtered by what was seen. *)
FetchBankAll == todo' = Page(Limit, 0) /\ newest' = LatestTx

FetchBank  == todo' = Page(Limit, 0) \ processed /\ newest' = LatestTx
FetchCoder == todo' = Page(PageLimit, mark) /\ newest' = LatestTx
FetchSol   == todo' = Page(Limit, mark) /\ newest' = LatestTx
FetchBlock == todo' = {s \in DOMAIN chain : s > mark} /\ newest' = Len(chain)

Poll ==
    /\ pc = "poll" /\ isRunning
    /\ \/ scanner = "bank" /\ FetchBank
       \/ scanner = "coder" /\ FetchCoder
       \/ scanner = "sol" /\ FetchSol
       \/ scanner = "block" /\ FetchBlock
    /\ todo' # {} /\ pc' = "work"
    /\ UNCHANGED <<scanner, chain, isRunning, mark, processed, records, from, faults>>

(* The fetch fails: logged, and tried again after a while. *)
PollFails ==
    /\ pc = "poll" /\ isRunning
    /\ Fault
    /\ UNCHANGED <<scanner, chain, pc, isRunning, todo, newest, mark, processed, records, from>>

-----------------------------------------------------------------------------
(* What each scanner reports of a transaction it could fetch.  A nested     *)
(* call reaches bank and coder not at all; block sees it, but hands its     *)
(* data, a base58 string, to a decoder that takes a string for hexadecimal. *)
bankFinds  == {"direct"}
coderFinds == {"direct"}
solFinds   == {"direct", "nested", "failed"}
blockFinds == {"direct"}

Finds == [bank |-> bankFinds, coder |-> coderFinds, sol |-> solFinds, block |-> blockFinds]
Reported(s) == chain[s] \in Finds[scanner]

(* Mutant: the page is worked through as it came, newest first. *)
NextIsNewest(s) == \A t \in todo : t <= s

(* The page comes newest first and is worked through from its end. *)
NextIs(s) == \A t \in todo : s <= t

(* Mutant: the cursor is moved to the newest of now, not of the page. *)
MarkLatest ==
    mark' = IF todo' = {} /\ scanner # "bank"
            THEN (IF scanner = "block" THEN Len(chain) ELSE LatestTx) ELSE mark

(* The cursor moves when the page is done. *)
MarkDone == mark' = IF todo' = {} /\ scanner # "bank" THEN newest ELSE mark

(* One transaction, or one block.  A request that fails, or finds nothing,  *)
(* leaves no record, and what it was about is passed over.                  *)
Process ==
    /\ pc = "work" /\ (scanner = "block" => isRunning)
    /\ \E s \in todo :
         /\ NextIs(s)
         /\ todo' = todo \ {s}
         /\ processed' = IF scanner = "bank" THEN processed \cup {s} ELSE processed
         /\ \/ /\ records' = IF Reported(s) THEN Append(records, s) ELSE records
               /\ UNCHANGED faults
            \/ Fault /\ UNCHANGED records
    /\ pc' = IF todo' = {} THEN "poll" ELSE "work"
    /\ MarkDone
    /\ UNCHANGED <<scanner, chain, isRunning, newest, from>>

(* Told to stop, block leaves the rest of the blocks. *)
Break ==
    /\ pc = "work" /\ scanner = "block" /\ ~isRunning
    /\ todo' = {} /\ pc' = "poll" /\ mark' = newest
    /\ UNCHANGED <<scanner, chain, isRunning, newest, processed, records, from, faults>>

(* Mutant: the end of the loop is left to the branch that has records. *)
StopWithRecords ==
    /\ pc = "poll" /\ ~isRunning /\ records # <<>>
    /\ pc' = "done"
    /\ UNCHANGED <<scanner, chain, isRunning, todo, newest, mark, processed, records, from, faults>>

(* while (isRunning); bank then saves its records, the others have printed theirs. *)
Stop ==
    /\ pc = "poll" /\ ~isRunning
    /\ pc' = "done"
    /\ UNCHANGED <<scanner, chain, isRunning, todo, newest, mark, processed, records, from, faults>>

-----------------------------------------------------------------------------
Step == Start \/ StartFails \/ Poll \/ Process \/ Break \/ Stop

ScanNext == ChainGrows \/ SIGINT \/ PollFails \/ Step

(* A request is answered or fails, and a timer fires: the process goes on.  *)
ScanSpec == ScanInit /\ [][ScanNext]_scanVars /\ WF_scanVars(Step)

-----------------------------------------------------------------------------
TypeOK ==
    /\ scanner \in DOMAIN Finds
    /\ chain \in Seq(Kinds)
    /\ pc \in {"start", "poll", "work", "done", "exited"} /\ isRunning \in BOOLEAN
    /\ todo \subseteq DOMAIN chain /\ processed \subseteq DOMAIN chain
    /\ newest \in 0..Len(chain) /\ mark \in 0..Len(chain) /\ from \in 0..Len(chain)
    /\ records \in Seq(DOMAIN chain)
    /\ faults \in 0..MaxFaults
    /\ (pc = "work") = (todo # {})

(* Nothing is reported twice, and nothing before what came before it on     *)
(* chain: for the set of seen signatures of bank, whose window slides over  *)
(* them, as for the cursors of the others.                                  *)
ReportedInOrder ==
    \A i, j \in DOMAIN records : i < j => records[i] < records[j]

(* Each of the four scanners implements the feed: failing requests, a page  *)
(* half done and an interrupt lose reports, but never repeat, reorder or    *)
(* invent one.                                                              *)
F == INSTANCE Feed WITH wanted <- Finds[scanner]
ImplementsFeed == F!Spec

(* As long as no request fails, nobody stops the scanner, and no more       *)
(* transactions arrive between two fetches than a page holds, every         *)
(* transaction after the start that the scanner can find is reported.       *)
pageSize == IF scanner = "coder" THEN PageLimit ELSE Limit
Calm ==
    /\ faults = 0 /\ isRunning
    /\ scanner # "block" => Cardinality(After(newest)) <= pageSize
Due(s) == pc \notin {"start", "exited"} /\ s \in Txs /\ s > from /\ Reported(s)
IsReported(s) == \E i \in DOMAIN records : records[i] = s
EverythingReported ==
    []Calm => \A s \in 1..MaxSlots : Due(s) ~> IsReported(s)

(* SIGINT ends every scanner, whatever arrives meanwhile: the page begun is *)
(* finished, no other is fetched.                                           *)
InterruptEnds == ~isRunning ~> pc \in {"done", "exited"}

=============================================================================
