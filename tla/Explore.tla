------------------------------ MODULE Explore ------------------------------
(***************************************************************************)
(* The Explore page, src/teredacta/static/js/explore.js: a list of         *)
(* entities steered by a filter box and type tabs, the connections of the  *)
(* entity chosen, and a preview of the connection chosen.  Every panel is  *)
(* filled by the answers to its requests in the order in which they arrive,*)
(* which need not be the order in which they were sent; Failed stands for  *)
(* "Failed to load. Please try again."                                     *)
(*                                                                         *)
(* Abstractions.  A panel shows what it was rendered from: the query, the  *)
(* entity or the recovery.  An input event is one edit of the filter box,  *)
(* and the text is trimmed already.                                        *)
(***************************************************************************)
EXTENDS Page, Sequences, FiniteSets

CONSTANTS Entities, Types, Filters, Recoveries,
          TypeOf,    \* the type of each entity
          Named,     \* the entities whose name matches each filter
          Rank,      \* the order of the list: mention_count DESC, name
          PerPage,   \* entities of a page of the list (50)
          Linked,    \* the entities that each entity is connected with
          Mentions,  \* the recoveries that each entity is connected with
          Empty,     \* no type, no filter text
          None,      \* nothing loaded, nothing selected, no state
          MaxExplore \* bound: events of the user

ASSUME ExploreAssumption ==
    /\ PerPage \in Nat \ {0}
    /\ Entities # {} /\ IsFiniteSet(Entities)
    /\ {None, Failed} \intersect (Entities \union Recoveries) = {}
    /\ None # Failed
    /\ Linked \in [Entities -> SUBSET Entities]
    /\ Mentions \in [Entities -> SUBSET Recoveries]

VARIABLES currentType, currentFilter, currentPage,
          filterInput,    \* the text in the filter box
          debounceTimer,  \* its timer is running
          entityList,     \* the query that the list panel shows the answer to
          listReqs,       \* requests for the list in flight
          firstLoad,      \* htmx's first request for the list is in flight
          activeItem,     \* the entity highlighted in the list
          connections,    \* the entity that the middle panel shows
          connReqs,       \* requests for connections in flight
          preview,        \* the recovery that the right panel shows
          previewReqs,    \* requests for a preview in flight
          history, here,  \* the tab's session history and the current entry
          crossed,        \* panels whose last requests overlapped another one
          exploreEvents   \* events of the user so far

listVars == <<currentType, currentFilter, currentPage, entityList, listReqs, firstLoad>>
inputVars == <<filterInput, debounceTimer>>
connVars == <<connections, connReqs>>
previewVars == <<preview, previewReqs>>
historyVars == <<history, here>>
exploreVars == <<listVars, inputVars, activeItem, connVars, previewVars, historyVars,
                 crossed, exploreEvents>>

Panels == {"list", "connections", "preview"}
Queries == [type : Types \union {Empty}, filter : Filters \union {Empty},
            page : 1..Cardinality(Entities)]
Entry == [url : Entities \union {None}, state : Entities \union {None}]
\* Why connections were asked for: the handlers go on differently.
Causes == {"click", "slide", "popstate", "initial"}
ConnRequests == [entity : Entities, cause : Causes]

UserEvent == exploreEvents < MaxExplore /\ exploreEvents' = exploreEvents + 1

-----------------------------------------------------------------------------
(* The server's answers. *)

Matching(q) ==
    {e \in Entities : /\ q.type \in {Empty, TypeOf[e]}
                      /\ q.filter = Empty \/ e \in Named[q.filter]}

OnPage(q) ==
    {e \in Matching(q) :
        Cardinality({f \in Matching(q) : Rank[f] <= Rank[e]})
            \in ((q.page - 1) * PerPage + 1)..(q.page * PerPage)}

HasMore(q) == q.page * PerPage < Cardinality(Matching(q))

-----------------------------------------------------------------------------
ExploreInit ==
    /\ currentType = Empty /\ currentFilter = Empty /\ currentPage = 1
    /\ filterInput = Empty /\ debounceTimer = FALSE
    /\ entityList = None
    /\ listReqs = Unsent(Queries)
    /\ firstLoad = TRUE
    /\ activeItem = None
    /\ connections = None
    /\ preview = None
    /\ previewReqs = Unsent(Recoveries)
    /\ \E e \in Entities \union {None} :   \* the page's own URL: / or /?entity=e
          /\ history = <<[url |-> e, state |-> None]>>
          /\ connReqs = [r \in ConnRequests |->
                            IF r = [entity |-> e, cause |-> "initial"] THEN 1 ELSE 0]
    /\ here = 1
    /\ crossed = {}
    /\ exploreEvents = 0

-----------------------------------------------------------------------------
(* The entity list. *)

Shown(type, filter, page) == [type |-> type, filter |-> filter, page |-> page]

FetchEntityList(type, filter, page) ==
    /\ currentPage' = page
    /\ listReqs' = Sent(listReqs, Shown(type, filter, page))
    /\ crossed' = IF Pending(listReqs) \/ firstLoad THEN crossed \union {"list"}
                                                    ELSE crossed \ {"list"}

\* The old items leave with the panel's old content, the highlighted one too.
ReplaceList(content) ==
    /\ entityList' = content
    /\ activeItem' = None

AnswerList(q) ==
    /\ listReqs[q] > 0
    /\ listReqs' = Answered(listReqs, q)
    /\ \/ ReplaceList(q)
       \/ ReplaceList(Failed)
    /\ UNCHANGED <<currentType, currentFilter, currentPage, firstLoad, inputVars, connVars,
                   previewVars, historyVars, crossed, exploreEvents>>

\* hx-trigger="load": htmx replaces nothing when the request fails.
FirstList ==
    /\ firstLoad
    /\ firstLoad' = FALSE
    /\ \/ ReplaceList(Shown(Empty, Empty, 1))
       \/ UNCHANGED <<entityList, activeItem>>
    /\ UNCHANGED <<currentType, currentFilter, currentPage, listReqs, inputVars, connVars,
                   previewVars, historyVars, crossed, exploreEvents>>

\* The button at the end of the list shown asks for the page after that one.
LoadMore ==
    /\ UserEvent
    /\ entityList \in Queries /\ HasMore(entityList)
    /\ FetchEntityList(currentType, currentFilter, entityList.page + 1)
    /\ UNCHANGED <<currentType, currentFilter, entityList, firstLoad, inputVars, activeItem,
                   connVars, previewVars, historyVars>>

TypeFilter(text) ==
    /\ UserEvent
    /\ text # filterInput
    /\ filterInput' = text
    /\ debounceTimer' = TRUE
    /\ UNCHANGED <<listVars, activeItem, connVars, previewVars, historyVars, crossed>>

\* Mutant: fetches before it assigns.
DebouncedStale ==
    /\ debounceTimer
    /\ debounceTimer' = FALSE
    /\ currentFilter' = filterInput
    /\ FetchEntityList(currentType, currentFilter, 1)
    /\ UNCHANGED <<currentType, entityList, firstLoad, filterInput, activeItem, connVars,
                   previewVars, historyVars, exploreEvents>>

Debounced ==
    /\ debounceTimer
    /\ debounceTimer' = FALSE
    /\ currentFilter' = filterInput
    /\ FetchEntityList(currentType, filterInput, 1)
    /\ UNCHANGED <<currentType, entityList, firstLoad, filterInput, activeItem, connVars,
                   previewVars, historyVars, exploreEvents>>

ChooseType(type) ==
    /\ UserEvent
    /\ currentType' = type
    /\ FetchEntityList(type, currentFilter, 1)
    /\ UNCHANGED <<currentFilter, entityList, firstLoad, inputVars, activeItem, connVars,
                   previewVars, historyVars>>

-----------------------------------------------------------------------------
(* Connections, preview and history. *)

PushState(e) ==
    /\ history' = Append(SubSeq(history, 1, here), [url |-> e, state |-> e])
    /\ here' = here + 1

\* The preview has crossed when it may belong to other connections than those
\* shown once everything has arrived.
FetchConnections(e, cause) ==
    /\ connReqs' = Sent(connReqs, [entity |-> e, cause |-> cause])
    /\ crossed' = (crossed \ {"connections"})
                  \union (IF Pending(connReqs) THEN {"connections"} ELSE {})
                  \union (IF Pending(previewReqs) \/ (cause = "popstate" /\ preview # None)
                          THEN {"preview"} ELSE {})

\* Mutant: the old preview stays.
KeepPreview ==
    /\ preview' = preview
    /\ crossed' = IF Pending(previewReqs) THEN crossed ELSE crossed \ {"preview"}

ClearPreview ==
    /\ preview' = None
    /\ crossed' = IF Pending(previewReqs) THEN crossed ELSE crossed \ {"preview"}

ClickEntity(e) ==
    /\ UserEvent
    /\ entityList \in Queries /\ e \in OnPage(entityList)
    /\ activeItem' = e
    /\ FetchConnections(e, "click")
    /\ PushState(e)
    /\ UNCHANGED <<listVars, inputVars, connections, previewVars>>

\* A connected entity: highlight and URL follow when its connections arrive.
ClickLinked(e) ==
    /\ UserEvent
    /\ connections \in Entities /\ e \in Linked[connections]
    /\ FetchConnections(e, "slide")
    /\ UNCHANGED <<listVars, inputVars, activeItem, connections, previewVars, historyVars>>

ClickRecovery(d) ==
    /\ UserEvent
    /\ connections \in Entities /\ d \in Mentions[connections]
    /\ previewReqs' = Sent(previewReqs, d)
    /\ crossed' = IF Pending(previewReqs) \/ Pending(connReqs)
                  THEN crossed \union {"preview"} ELSE crossed \ {"preview"}
    /\ UNCHANGED <<listVars, inputVars, activeItem, connVars, preview, historyVars>>

AnswerPreview(d) ==
    /\ previewReqs[d] > 0
    /\ previewReqs' = Answered(previewReqs, d)
    /\ preview' \in {d, Failed}
    /\ UNCHANGED <<listVars, inputVars, activeItem, connVars, historyVars, crossed,
                   exploreEvents>>

\* What the four handlers do when the connections of e are there.
ArriveFromClick(e) ==
    /\ ClearPreview
    /\ UNCHANGED <<activeItem, historyVars>>

HighlightIfListed(e) ==
    activeItem' = IF entityList \in Queries /\ e \in OnPage(entityList) THEN e ELSE None

\* Mutant: a connected entity is not entered in the history.
ArriveFromSlideUnpushed(e) ==
    /\ ClearPreview
    /\ HighlightIfListed(e)
    /\ UNCHANGED historyVars

ArriveFromSlide(e) ==
    /\ ClearPreview
    /\ HighlightIfListed(e)
    /\ PushState(e)

ArriveFromPopState(e) == UNCHANGED <<preview, crossed, activeItem, historyVars>>

ArriveFromUrl(e) ==
    /\ history' = [history EXCEPT ![here] = [url |-> e, state |-> e]]
    /\ UNCHANGED <<preview, crossed, activeItem, here>>

ConnectionsArrive(e, cause) ==
    /\ connections' = e
    /\ \/ cause = "click" /\ ArriveFromClick(e)
       \/ cause = "slide" /\ ArriveFromSlide(e)
       \/ cause = "popstate" /\ ArriveFromPopState(e)
       \/ cause = "initial" /\ ArriveFromUrl(e)

ConnectionsFail ==
    /\ connections' = Failed
    /\ UNCHANGED <<activeItem, preview, crossed, historyVars>>

AnswerConnections(e, cause) ==
    LET r == [entity |-> e, cause |-> cause] IN
    /\ connReqs[r] > 0
    /\ connReqs' = Answered(connReqs, r)
    /\ ConnectionsArrive(e, cause) \/ ConnectionsFail
    /\ UNCHANGED <<listVars, inputVars, previewReqs, exploreEvents>>

ShowPlaceholders ==
    /\ connections' = None /\ preview' = None
    /\ crossed' = (crossed \ {"connections", "preview"})
                  \union (IF Pending(connReqs) THEN {"connections"} ELSE {})
                  \union (IF Pending(previewReqs) THEN {"preview"} ELSE {})
    /\ UNCHANGED connReqs

\* Back (to = here - 1) or Forward: the handler of popstate.
GoTo(to) ==
    /\ UserEvent
    /\ here' = to
    /\ IF history[to].state # None
       THEN FetchConnections(history[to].state, "popstate") /\ UNCHANGED <<connections, preview>>
       ELSE ShowPlaceholders
    /\ UNCHANGED <<listVars, inputVars, activeItem, previewReqs, history>>

ExploreNext ==
    \/ \E q \in Queries : AnswerList(q)
    \/ FirstList
    \/ LoadMore
    \/ \E text \in Filters \union {Empty} : TypeFilter(text)
    \/ Debounced
    \/ \E type \in Types \union {Empty} : ChooseType(type)
    \/ \E e \in Entities : ClickEntity(e) \/ ClickLinked(e)
    \/ \E d \in Recoveries : ClickRecovery(d) \/ AnswerPreview(d)
    \/ \E e \in Entities, cause \in Causes : AnswerConnections(e, cause)
    \/ \E to \in {here - 1, here + 1} \intersect DOMAIN history : GoTo(to)

ExploreSpec == ExploreInit /\ [][ExploreNext]_exploreVars
-----------------------------------------------------------------------------
(* Properties. *)

ExploreTypeOK ==
    /\ currentType \in Types \union {Empty} /\ currentFilter \in Filters \union {Empty}
    /\ filterInput \in Filters \union {Empty} /\ debounceTimer \in BOOLEAN
    /\ currentPage \in 1..Cardinality(Entities)
    /\ entityList \in Queries \union {None, Failed} /\ firstLoad \in BOOLEAN
    /\ listReqs \in [Queries -> Nat]
    /\ activeItem \in Entities \union {None}
    /\ connections \in Entities \union {None, Failed}
    /\ connReqs \in [ConnRequests -> Nat]
    /\ preview \in Recoveries \union {None, Failed}
    /\ previewReqs \in [Recoveries -> Nat]
    /\ history \in Seq(Entry) /\ here \in DOMAIN history
    /\ crossed \subseteq Panels
    /\ exploreEvents \in Nat

\* When the list has come to rest it shows what the tabs and the filter box
\* say, or its error, though the box acts 300 ms late and the tabs at once;
\* only requests that overlapped can leave another list behind.
ListFollowsControls ==
    Pending(listReqs) \/ firstLoad \/ debounceTimer \/ "list" \in crossed
    \/ /\ currentFilter = filterInput
       /\ \/ entityList \in {Failed, Shown(currentType, currentFilter, currentPage)}
          \/ entityList = None /\ Shown(currentType, currentFilter, currentPage) = Shown(Empty, Empty, 1)

\* "Browser back/forward works (URL updates with query params)": at rest, the
\* middle panel shows the entity that the address names, unless its request
\* failed or overlapped another; only the page's first entry, when its own
\* request failed or is still out, has no state to come back to.
UrlNamesEntity ==
    /\ \A i \in DOMAIN history : history[i].state # history[i].url => i = 1
    /\ \/ Pending(connReqs) \/ "connections" \in crossed
       \/ connections \in {Failed, history[here].url}
       \/ history[here].state # history[here].url

\* At rest, the preview is of a connection of the entity shown.  Two things
\* alone can leave it beside another entity: overlapping requests, and Back or
\* Forward, whose handler keeps the preview.
PreviewBelongs ==
    Pending(connReqs) \/ Pending(previewReqs) \/ "preview" \in crossed
    \/ preview \in {None, Failed}
    \/ connections = Failed
    \/ (connections \in Entities /\ preview \in Mentions[connections])
=============================================================================
