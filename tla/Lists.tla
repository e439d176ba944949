-------------------------------- MODULE Lists --------------------------------
(***************************************************************************)
(* UniswapV2/interface: the token lists.  A list is fetched from its URL   *)
(* when it is added, when it has never been loaded and every ten minutes   *)
(* (state/lists/updater.ts, hooks/useFetchListCallback.ts); the store      *)
(* keeps the release in use and one that waits to be accepted              *)
(* (state/lists/reducer.ts), is saved in the browser and loaded again with *)
(* the page (state/index.ts).  A popup and the list manager let the user   *)
(* accept, add and remove (ListUpdatePopup.tsx, ListSelect.tsx).           *)
(*                                                                         *)
(* Answers come back in any order, and with what the site held at any time *)
(* since they were asked for.  The updater's effects are run before the    *)
(* next callback: a render and its effects are one step.                   *)
(***************************************************************************)
EXTENDS Naturals, FiniteSets

CONSTANTS Urls,
          Releases,   \* what is published, in order: [major, minor, tokens]
          Defaults,   \* the default lists of the versions of the page
          DefaultUrl, \* DEFAULT_TOKEN_LIST_URL, whose list the page brings along
          Bundled,    \* the release of it that the page brings along
          Newest,     \* how many of them the site of each URL gets to
          Ids,        \* request ids
          MaxFlight,  \* bound on the requests in flight when one more is made
          MaxReloads  \* bound on how often the page is loaded again

None == 0             \* no release, no request, no version

VARIABLES
    published,  \* for every URL the newest release on its site
    byUrl,      \* the lists of the store: current, pending, loading, error
    lastInit,   \* lastInitializedDefaultListOfLists
    popups,     \* the update popups that show, by URL: [old, new, auto]
    requests,   \* in flight: [id, url, since, adding]
    dirty,      \* the lists have changed: the updater's effects are to run
    reloads

listVars == <<published, byUrl, lastInit, popups, requests, dirty, reloads>>

NEW_LIST_STATE == [current |-> None, pending |-> None, loading |-> None, error |-> FALSE]

(* initialState: the default lists, of which one is loaded already.        *)
initialLists(version) ==
    [u \in Defaults[version] \union {DefaultUrl} |->
        IF u = DefaultUrl THEN [NEW_LIST_STATE EXCEPT !.current = Bundled] ELSE NEW_LIST_STATE]

(* updateVersion: what a page of a version makes of lists that a page with *)
(* the default lists of another, or of none that is known, has left.  A    *)
(* list that has become a default starts anew, also one the user had; one  *)
(* that no longer is goes.                                                 *)
updateVersion(lists, last, version) ==
    IF last = None THEN initialLists(version)
    ELSE LET added == Defaults[version] \ Defaults[last]
         IN  [u \in (DOMAIN lists \union added) \ (Defaults[last] \ Defaults[version]) |->
                 IF u \in added THEN NEW_LIST_STATE ELSE lists[u]]

(* The first page finds nothing saved, or what a page left that kept no    *)
(* record of its default lists.                                            *)
ListsInit ==
    /\ published = [u \in Urls |-> 1]
    /\ byUrl = updateVersion(<<>>, None, 1)
    /\ lastInit = 1 /\ popups = <<>> /\ requests = {}
    /\ dirty = TRUE /\ reloads = 0

-----------------------------------------------------------------------------
(* @uniswap/token-lists: by how much a version is newer, and by how much   *)
(* it has to be, for what became of the tokens.                            *)
MAJOR == 2
MINOR == 1
NONE == 0

getVersionUpgrade(r, s) ==
    LET old == Releases[r] new == Releases[s] IN
    IF new.major > old.major THEN MAJOR
    ELSE IF new.major = old.major /\ new.minor > old.minor THEN MINOR ELSE NONE

minVersionBump(r, s) ==
    LET old == Releases[r].tokens new == Releases[s].tokens IN
    IF ~(old \subseteq new) THEN MAJOR ELSE IF old # new THEN MINOR ELSE NONE

With(f, u, v) == [x \in DOMAIN f \union {u} |-> IF x = u THEN v ELSE f[x]]
Without(f, u) == [x \in DOMAIN f \ {u} |-> f[x]]

ListOf(u) == IF u \in DOMAIN byUrl THEN byUrl[u] ELSE NEW_LIST_STATE

-----------------------------------------------------------------------------
(* The site of a list publishes its next release.                          *)
Publish(u) ==
    /\ published[u] < Newest[u]
    /\ published' = [published EXCEPT ![u] = @ + 1]
    /\ UNCHANGED <<byUrl, lastInit, popups, requests, dirty, reloads>>

(* fetchList: the request is noted in the list, then sent.  nanoid gives   *)
(* an id that is in no use.                                                *)
InUse == {r.id : r \in requests} \union {byUrl[u].loading : u \in DOMAIN byUrl}
Injections(U) == {f \in [U -> Ids \ InUse] : \A u, v \in U : f[u] = f[v] => u = v}
nanoid(U) == CHOOSE f \in Injections(U) : TRUE
Request(i, u, adding) == [id |-> i, url |-> u, since |-> published[u], adding |-> adding]

fetchTokenListPending(lists, u, i) ==
    With(lists, u, [(IF u \in DOMAIN lists THEN lists[u] ELSE NEW_LIST_STATE)
                       EXCEPT !.loading = i, !.error = FALSE])

(* The lists an interval asks for.                                         *)
Refreshed_Idle == {u \in DOMAIN byUrl : byUrl[u].loading = None}
Refreshed == DOMAIN byUrl

(* Every ten minutes, and as soon as the library is there: all the lists.  *)
Tick ==
    /\ ~dirty /\ Injections(Refreshed) # {} /\ Cardinality(requests) < MaxFlight
    /\ LET ids == nanoid(Refreshed) IN
        /\ byUrl' = [u \in DOMAIN byUrl |->
               IF u \in Refreshed THEN [byUrl[u] EXCEPT !.loading = ids[u], !.error = FALSE]
               ELSE byUrl[u]]
        /\ requests' = requests \union {Request(ids[u], u, FALSE) : u \in Refreshed}
    /\ dirty' = TRUE
    /\ UNCHANGED <<published, lastInit, popups, reloads>>

(* The effects of the updater: a list never loaded is fetched; an update   *)
(* that breaks nothing is taken, a major one is put before the user.       *)
Unloaded == {u \in DOMAIN byUrl : byUrl[u].current = None /\ byUrl[u].loading = None
                                  /\ ~byUrl[u].error}
Waiting == {u \in DOMAIN byUrl : byUrl[u].current # None /\ byUrl[u].pending # None}
Bump(u) == getVersionUpgrade(byUrl[u].current, byUrl[u].pending)
Automatic == {u \in Waiting : Bump(u) = MINOR
                              /\ Bump(u) >= minVersionBump(byUrl[u].current, byUrl[u].pending)}
Announced == Automatic \union {u \in Waiting : Bump(u) = MAJOR}

RunEffects ==
    /\ dirty /\ Injections(Unloaded) # {}
    /\ LET ids == nanoid(Unloaded) IN
        /\ byUrl' = [u \in DOMAIN byUrl |->
               IF u \in Unloaded THEN [byUrl[u] EXCEPT !.loading = ids[u]]
               ELSE IF u \in Automatic
                    THEN [byUrl[u] EXCEPT !.current = byUrl[u].pending, !.pending = None]
               ELSE byUrl[u]]
        /\ requests' = requests \union {Request(ids[u], u, FALSE) : u \in Unloaded}
    /\ popups' = [u \in DOMAIN popups \union Announced |->
           IF u \in Announced
           THEN [old |-> byUrl[u].current, new |-> byUrl[u].pending, auto |-> u \in Automatic]
           ELSE popups[u]]
    /\ dirty' = (byUrl' # byUrl)
    /\ UNCHANGED <<published, lastInit, reloads>>

-----------------------------------------------------------------------------
(* A request comes back with a release, or with an error.                  *)
fetchTokenListFulfilled_AnyVersion(u, i, s) ==
    LET list == ListOf(u) IN
    byUrl' =
      IF list.current = None
      THEN With(byUrl, u, [current |-> s, pending |-> None, loading |-> None, error |-> FALSE])
      ELSE IF list.loading \in {None, i}
      THEN [byUrl EXCEPT ![u].loading = None, ![u].error = FALSE, ![u].pending = s]
      ELSE byUrl
fetchTokenListFulfilled(u, i, s) ==
    LET list == ListOf(u) IN
    byUrl' =
      IF list.current = None
      THEN With(byUrl, u, [current |-> s, pending |-> None, loading |-> None, error |-> FALSE])
      ELSE IF getVersionUpgrade(list.current, s) # NONE /\ list.loading \in {None, i}
      THEN [byUrl EXCEPT ![u].loading = None, ![u].error = FALSE, ![u].pending = s]
      ELSE byUrl

Fulfilled(r) ==
    /\ ~dirty
    /\ \E s \in r.since..published[r.url] : fetchTokenListFulfilled(r.url, r.id, s)
    /\ requests' = requests \ {r} /\ dirty' = (byUrl' # byUrl)
    /\ UNCHANGED <<published, lastInit, popups, reloads>>

fetchTokenListRejected(u, i) ==
    IF ListOf(u).loading # i THEN byUrl
    ELSE With(byUrl, u, [NEW_LIST_STATE EXCEPT !.error = TRUE])

(* The list manager takes a list off again that it could not add.          *)
Rejected(r) ==
    /\ ~dirty
    /\ LET lists == fetchTokenListRejected(r.url, r.id)
       IN  IF r.adding THEN byUrl' = Without(lists, r.url) ELSE byUrl' = lists
    /\ requests' = requests \ {r} /\ dirty' = (byUrl' # byUrl)
    /\ UNCHANGED <<published, lastInit, popups, reloads>>

-----------------------------------------------------------------------------
(* The list manager.  It shows the lists that are loaded.                  *)
handleAddList(u) ==
    /\ ~dirty /\ ListOf(u).loading = None
    /\ Injections({u}) # {} /\ Cardinality(requests) < MaxFlight
    /\ LET i == nanoid({u})[u] IN
        /\ byUrl' = fetchTokenListPending(byUrl, u, i)
        /\ requests' = requests \union {Request(i, u, TRUE)}
    /\ dirty' = TRUE
    /\ UNCHANGED <<published, lastInit, popups, reloads>>

handleRemoveList(u) ==
    /\ ~dirty /\ ListOf(u).current # None /\ Cardinality(DOMAIN byUrl) # 1
    /\ byUrl' = Without(byUrl, u) /\ dirty' = TRUE
    /\ UNCHANGED <<published, lastInit, popups, requests, reloads>>

acceptListUpdate(u) ==
    /\ ListOf(u).pending # None   \* it throws otherwise
    /\ byUrl' = [byUrl EXCEPT ![u].current = byUrl[u].pending, ![u].pending = None]
    /\ dirty' = TRUE
    /\ UNCHANGED <<published, lastInit, requests, reloads>>

handleAcceptListUpdate(u) ==
    ~dirty /\ ListOf(u).current # None /\ acceptListUpdate(u) /\ UNCHANGED popups

(* The popup.  An automatic one only tells, and goes after a while.        *)
handleAcceptUpdate(u) ==
    /\ ~dirty /\ u \in DOMAIN popups /\ ~popups[u].auto
    /\ acceptListUpdate(u) /\ popups' = Without(popups, u)

removePopup(u) ==
    /\ ~dirty /\ u \in DOMAIN popups /\ popups' = Without(popups, u)
    /\ UNCHANGED <<published, byUrl, lastInit, requests, dirty, reloads>>

(* The page is loaded again, perhaps a newer version of it: the lists come *)
(* back as they were saved, the requests and the popups do not.            *)
Reload ==
    /\ reloads < MaxReloads /\ reloads' = reloads + 1
    /\ \E version \in {v \in DOMAIN Defaults : v >= lastInit} :
        byUrl' = updateVersion(byUrl, lastInit, version) /\ lastInit' = version
    /\ popups' = <<>> /\ requests' = {} /\ dirty' = TRUE
    /\ UNCHANGED published

-----------------------------------------------------------------------------
EndRequest(r) == Fulfilled(r) \/ Rejected(r)

ListsNext ==
    \/ Tick \/ RunEffects \/ Reload
    \/ \E u \in Urls :
        \/ Publish(u) \/ handleAddList(u) \/ handleRemoveList(u)
        \/ handleAcceptListUpdate(u) \/ handleAcceptUpdate(u) \/ removePopup(u)
    \/ \E r \in requests : EndRequest(r)

(* The interval and the effects run; requests end, well or badly, and not  *)
(* always later than the list is asked for once more: the interval is ten  *)
(* minutes.                                                                *)
ListsFairness ==
    /\ SF_listVars(Tick) /\ WF_listVars(RunEffects)
    /\ SF_listVars(\E r \in requests : EndRequest(r))
    /\ \A u \in Urls : SF_listVars(\E r \in requests : r.url = u /\ r.id = ListOf(u).loading /\ EndRequest(r))

ListsSpec == ListsInit /\ [][ListsNext]_listVars /\ ListsFairness

-----------------------------------------------------------------------------
(* An update that waits is newer than the list in use, in whatever order   *)
(* answers came back and were accepted: the throw of updater.ts:50,        *)
(* "unexpected no version bump", is never reached.                         *)
PendingIsNewer ==
    \A u \in DOMAIN byUrl : byUrl[u].pending # None =>
        /\ byUrl[u].current # None
        /\ getVersionUpgrade(byUrl[u].current, byUrl[u].pending) # NONE

(* A list of the store ends up loaded, or with an error, or removed: also  *)
(* one that was saved while its request was in flight, which is marked as  *)
(* loading and has nobody loading it.                                      *)
ListsSettle ==
    \A u \in Urls : u \in DOMAIN byUrl
        ~> (u \notin DOMAIN byUrl \/ byUrl[u].current # None \/ byUrl[u].error)

=============================================================================
