------------------------------ MODULE Multicall ------------------------------
(***************************************************************************)
(* UniswapV2/interface: how the pages read the chain.  Every hook of a     *)
(* page that needs an answer of a contract lists the calls it is about     *)
(* (state/multicall/hooks.ts); an updater fetches the answers that are     *)
(* out of date, many calls to a request, again for every new block         *)
(* (state/multicall/updater.tsx), and puts them into the store             *)
(* (state/multicall/reducer.ts).  The number of the newest block comes     *)
(* from another updater (state/application/updater.ts).                    *)
(*                                                                         *)
(* The browser runs one callback at a time: each is an action.  React      *)
(* renders as soon as the store has changed, but runs the effect of a      *)
(* render later, at the latest before the next render: an answer of a node *)
(* may come between the two.  A key is a call, contract and data; the      *)
(* answer to key k in block b is [of |-> k, at |-> b].  sort() only makes  *)
(* equal sets of keys equal lists: any order will do (SetToSeq).  One      *)
(* chain: the user does not switch networks.                               *)
(***************************************************************************)
EXTENDS Naturals, Integers, Sequences, FiniteSets, Functions, SequencesExt

CONSTANTS Keys,       \* call keys
          Hooks,      \* the mounted uses of useCallsData
          Calls,      \* the keys of each hook
          Rate,       \* blocksPerFetch of each hook: 1 or Infinity
          ChunkSize,  \* CALL_CHUNK_SIZE
          MaxBlock,   \* bound on the number of blocks
          Null        \* the data of a call that failed, or has no answer yet

Infinity == MaxBlock + 1     \* longer than the chain gets

ASSUME CallsAssumption ==
    /\ IsFiniteSet(Keys) /\ ChunkSize \in Nat \ {0} /\ MaxBlock \in Nat
    /\ Calls \in [Hooks -> SUBSET Keys \ {{}}] /\ Rate \in [Hooks -> {1, Infinity}]

VARIABLES
    head,         \* the newest block of the chain
    latest,       \* the block number of the store, 0 for undefined
    mounted,      \* the hooks that are on a page now
    listeners,    \* callListeners: for every key listed, the uses by rate
    debounced,    \* debouncedListeners
    results,      \* callResults
    rendered,     \* the dependencies of the updater's last render
    pending,      \* whether the effect of that render is still to run
    fetches,      \* the requests in flight
    cancellations \* the block, and the requests that a later block cancels

listenVars == <<mounted, listeners, debounced>>
fetchVars == <<results, rendered, pending, fetches, cancellations>>
vars == <<head, latest, listenVars, fetchVars>>

Init ==
    /\ head = 1 /\ latest = 0
    /\ mounted = {} /\ listeners = <<>> /\ debounced = <<>>
    /\ results = <<>> /\ rendered = [keys |-> {}, latest |-> 0] /\ pending = FALSE
    /\ fetches = {} /\ cancellations = [block |-> 0, ids |-> {}]

-----------------------------------------------------------------------------
(* How often each key must be fetched: by its most demanding use.  A key   *)
(* that is not used any more stays, with no demand.                        *)
activeListeningKeys(ls) ==
    [k \in DOMAIN ls |-> IF ls[k][1] > 0 THEN 1 ELSE Infinity]

minDataBlockNumber(rate) == latest - (rate - 1)

AlreadyFetching(k, rate) ==
    /\ k \in DOMAIN results /\ results[k].fetching > 0
    /\ results[k].fetching >= minDataBlockNumber(rate)

outdatedListeningKeys(active) ==
    {k \in DOMAIN active :
        /\ latest > 0
        /\ \/ k \notin DOMAIN results
           \/ /\ ~AlreadyFetching(k, active[k])
              /\ \/ results[k].block = 0
                 \/ results[k].block < minDataBlockNumber(active[k])}

Dependencies ==
    [keys |-> outdatedListeningKeys(activeListeningKeys(debounced)), latest |-> latest]

(* What the updater depends on has not changed since it rendered last.     *)
Rendered == rendered = Dependencies

-----------------------------------------------------------------------------
(* The chain and the number of its newest block.  A node may report a      *)
(* block late.                                                             *)
Grow ==
    /\ head < MaxBlock /\ head' = head + 1
    /\ UNCHANGED <<latest, listenVars, fetchVars>>

(* The store takes a newer number.  What the updater holds before that,    *)
(* from the node's event until it has rested (useDebounce), and the time   *)
(* the window is hidden, are only delays: both keep the greatest number.   *)
UpdateBlockNumber(b) ==
    /\ b > latest /\ latest' = b
    /\ UNCHANGED <<head, listenVars, fetchVars>>

-----------------------------------------------------------------------------
(* A hook lists its calls when it is mounted, and takes them off again.    *)
Uses(ls, k) == IF k \in DOMAIN ls THEN ls[k] ELSE [r \in {1, Infinity} |-> 0]

Mount(h) ==
    /\ h \notin mounted /\ mounted' = mounted \union {h}
    /\ listeners' = [k \in DOMAIN listeners \union Calls[h] |->
           IF k \in Calls[h] THEN [Uses(listeners, k) EXCEPT ![Rate[h]] = @ + 1]
                             ELSE listeners[k]]
    /\ UNCHANGED <<head, latest, debounced, fetchVars>>

Unmount(h) ==
    /\ h \in mounted /\ mounted' = mounted \ {h}
    /\ listeners' = [k \in DOMAIN listeners |->
           IF k \in Calls[h] /\ listeners[k][Rate[h]] > 0
           THEN [listeners[k] EXCEPT ![Rate[h]] = @ - 1] ELSE listeners[k]]
    /\ UNCHANGED <<head, latest, debounced, fetchVars>>

SettleListeners ==
    /\ debounced # listeners /\ debounced' = listeners
    /\ UNCHANGED <<head, latest, mounted, listeners, fetchVars>>

-----------------------------------------------------------------------------
(* React runs the effect of a render before it renders again.              *)
Render ==
    /\ ~pending /\ ~Rendered
    /\ rendered' = Dependencies /\ pending' = TRUE
    /\ UNCHANGED <<head, latest, listenVars, results, fetches, cancellations>>

(* items in chunks of the same size, none above the limit: the start and   *)
(* the calls of each.                                                      *)
CeilDiv(a, b) == (a + b - 1) \div b

chunkArray(items) ==
    LET n    == CeilDiv(Len(items), ChunkSize)
        size == CeilDiv(Len(items), n)
    IN  [i \in 1..n |-> [first |-> (i - 1) * size,
                         calls |-> SubSeq(items, (i - 1) * size + 1,
                                          IF i * size < Len(items) THEN i * size ELSE Len(items))]]

(* The keys the answers of chunk i are put under.                          *)
AnsweredKeys_NoOffset(items, i) == SubSeq(items, 1, Len(chunkArray(items)[i].calls))
AnsweredKeys(items, i) ==
    LET chunk == chunkArray(items)[i] IN
    SubSeq(items, chunk.first + 1, chunk.first + Len(chunk.calls))

fetchingMulticallResults(calls, block) ==
    results' = [k \in DOMAIN results \union calls |->
        IF k \notin DOMAIN results THEN [data |-> Null, block |-> 0, fetching |-> block]
        ELSE IF k \in calls /\ results[k].fetching < block
             THEN [results[k] EXCEPT !.fetching = block] ELSE results[k]]

FreshIds(n, used) == {i \in 1..(n + Cardinality(used)) :
                        /\ i \notin used /\ Cardinality((1..i) \ used) <= n}

(* A newer block cancels what was asked for an older one.                  *)
Kept_Always == {f \in fetches : f.id \notin cancellations.ids}
Kept ==
    IF cancellations.block = rendered.latest THEN fetches
    ELSE {f \in fetches : f.id \notin cancellations.ids}

(* The effect of the updater: the keys out of date are asked for.          *)
RunEffect ==
    /\ pending /\ pending' = FALSE
    /\ LET keys == SetToSeq(rendered.keys)
           n    == Len(chunkArray(keys))
           ids  == SetToSeq(FreshIds(n, {f.id : f \in fetches}))
       IN  IF rendered.keys = {} THEN UNCHANGED <<results, fetches, cancellations>>
           ELSE /\ fetchingMulticallResults(rendered.keys, rendered.latest)
                /\ fetches' = Kept \union
                      {[id |-> ids[i], calls |-> chunkArray(keys)[i].calls,
                        into |-> AnsweredKeys(keys, i), min |-> rendered.latest] : i \in 1..n}
                /\ cancellations' = [block |-> rendered.latest, ids |-> {ids[i] : i \in 1..n}]
    /\ UNCHANGED <<head, latest, listenVars, rendered>>

(* The blocks an answer is taken from.  One from before min is asked for   *)
(* again a few seconds later: nothing changes until a node answers that    *)
(* has got there.                                                          *)
fetchChunk(f) == f.min..head

(* An answer goes under its key, unless there is one of a later block.     *)
updateMulticallResults(f, b) ==
    LET into == {f.into[i] : i \in DOMAIN f.into}
        at(k) == CHOOSE i \in DOMAIN f.into : f.into[i] = k
    IN  results' = [k \in DOMAIN results \union into |->
            IF k \in into /\ (k \in DOMAIN results => results[k].block <= b)
            THEN [data |-> [of |-> f.calls[at(k)], at |-> b], block |-> b, fetching |-> 0]
            ELSE results[k]]

errorFetchingMulticallResults(f) ==
    results' = [k \in DOMAIN results |->
        IF results[k].fetching = f.min /\ \E i \in DOMAIN f.calls : f.calls[i] = k
        THEN [data |-> Null, block |-> f.min, fetching |-> 0] ELSE results[k]]

(* The first answer also forgets what else there is to cancel.             *)
Answer(f, b) ==
    /\ fetches' = fetches \ {f}
    /\ cancellations' = [block |-> f.min, ids |-> {}]
    /\ updateMulticallResults(f, b)
    /\ UNCHANGED <<head, latest, listenVars, rendered, pending>>

(* Any other error ends the request: the keys still marked with its block  *)
(* count as answered, with no data.                                        *)
Fail(f) ==
    /\ fetches' = fetches \ {f}
    /\ cancellations' = [cancellations EXCEPT !.ids = @ \ {f.id}]
    /\ errorFetchingMulticallResults(f)
    /\ UNCHANGED <<head, latest, listenVars, rendered, pending>>

Settle(f) == Fail(f) \/ \E b \in fetchChunk(f) : Answer(f, b)

-----------------------------------------------------------------------------
(* What runs from the browser's queue, when React has rendered.            *)
Callback ==
    /\ Rendered
    /\ \/ \E b \in 1..head : UpdateBlockNumber(b)
       \/ \E h \in Hooks : Mount(h) \/ Unmount(h)
       \/ SettleListeners
       \/ \E f \in fetches : Settle(f)

Next == Grow \/ Render \/ RunEffect \/ Callback

(* Timers and effects run; the node's newest block gets through, so the    *)
(* window does not stay hidden; a request that is not cancelled is         *)
(* answered or fails in the end.                                           *)
Fairness ==
    /\ WF_vars(Render) /\ WF_vars(RunEffect)
    /\ WF_vars(Rendered /\ UpdateBlockNumber(head)) /\ WF_vars(Rendered /\ SettleListeners)
    /\ WF_vars(Rendered /\ \E f \in fetches : Settle(f))

Spec == Init /\ [][Next]_vars /\ Fairness

-----------------------------------------------------------------------------
(* toCallState: what the hook makes of an answer for its page.             *)
Block(k) == IF k \in DOMAIN results THEN results[k].block ELSE 0
Loading(k) == Block(k) = 0 \/ latest = 0
Syncing(k) == Block(k) < latest

(* The store implements the abstract view: whatever chunk a call is in and *)
(* in whatever order the requests of several blocks come back, a key shows *)
(* the answer to its own call, and never an older one after a newer.       *)
Shown == INSTANCE View WITH
    answer <- [k \in Keys |-> IF k \in DOMAIN results THEN results[k].data ELSE Null]
ImplementsView == Shown!Spec

(* A hook that asks for every block and stays on the page sees, once the   *)
(* chain rests, the answer of its newest block: no cancelled or failed     *)
(* request, and no answer that came late, leaves it loading or syncing.    *)
EventuallySynced ==
    \A h \in Hooks : Rate[h] = 1 =>
        (<>[](h \in mounted)
            => <>[](latest = head /\ \A k \in Calls[h] : ~Loading(k) /\ ~Syncing(k)))

=============================================================================
