--------------------------- MODULE ExploreProofs ---------------------------
(* Proofs about Explore, for any entities, lists and numbers of requests:  *)
(* the three panels never show what does not belong to what the user chose,*)
(* but for requests that overlapped.  What makes it inductive is to say    *)
(* what the requests in flight are for.                                    *)
EXTENDS Explore, FiniteSetTheorems, SequenceTheorems, TLAPS

LEMMA Sending ==
    ASSUME NEW S, NEW reqs \in [S -> Nat], NEW r \in S
    PROVE  /\ Sent(reqs, r) \in [S -> Nat] /\ Pending(Sent(reqs, r))
           /\ \A x \in S : Sent(reqs, r)[x] > 0 <=> x = r \/ reqs[x] > 0
           /\ ~Pending(reqs) => \A x \in S : Sent(reqs, r)[x] > 0 => x = r /\ Sent(reqs, r)[x] = 1
BY DEF Sent, Pending

LEMMA Answering ==
    ASSUME NEW S, NEW reqs \in [S -> Nat], NEW r \in S, reqs[r] > 0
    PROVE  /\ Answered(reqs, r) \in [S -> Nat] /\ Pending(reqs)
           /\ \A x \in S : Answered(reqs, r)[x] > 0 => reqs[x] > 0
           /\ Pending(Answered(reqs, r)) =>
                 reqs[r] > 1 \/ \E x \in S \ {r} : reqs[x] > 0
BY DEF Answered, Pending

\* A visit of the tab's history and of what was shown there.
LEMMA Pushing ==
    ASSUME NEW e \in Entities, history \in Seq(Entry), here \in DOMAIN history, PushState(e)
    PROVE  /\ history' \in Seq(Entry) /\ here' \in DOMAIN history' /\ Len(history') = here + 1
           /\ \A i \in 1..here : history'[i] = history[i]
           /\ history'[here'] = [url |-> e, state |-> e] /\ here' = here + 1 /\ here \in Nat \ {0}
<1> DEFINE past == SubSeq(history, 1, here)
           new == [url |-> e, state |-> e]
<1>1. here \in 1..Len(history) /\ Len(history) \in Nat
  OBVIOUS
<1>2. past \in Seq(Entry) /\ Len(past) = here /\ \A i \in 1..here : past[i] = history[i]
  BY <1>1, SubSeqProperties
<1>3. new \in Entry
  BY DEF Entry
<1>4. /\ Append(past, new) \in Seq(Entry) /\ Len(Append(past, new)) = here + 1
      /\ \A i \in 1..here : Append(past, new)[i] = past[i]
      /\ Append(past, new)[here + 1] = new
  <2> HIDE DEF past, new
  <2>1. QED
    BY <1>1, <1>2, <1>3, AppendProperties
<1>5. QED
  BY <1>1, <1>2, <1>4 DEF PushState

-----------------------------------------------------------------------------
(* Types. *)

\* The steps of the list and its controls, and those of the other two panels.
ListStep ==
    \/ \E q \in Queries : AnswerList(q)
    \/ FirstList \/ LoadMore \/ Debounced
    \/ \E text \in Filters \union {Empty} : TypeFilter(text)
    \/ \E type \in Types \union {Empty} : ChooseType(type)

PanelStep ==
    \/ \E e \in Entities : ClickEntity(e) \/ ClickLinked(e)
    \/ \E d \in Recoveries : ClickRecovery(d) \/ AnswerPreview(d)
    \/ \E e \in Entities, cause \in Causes : AnswerConnections(e, cause)
    \/ \E to \in {here - 1, here + 1} \intersect DOMAIN history : GoTo(to)

LEMMA Steps == [ExploreNext]_exploreVars => ListStep \/ PanelStep \/ UNCHANGED exploreVars
BY DEF ExploreNext, ListStep, PanelStep

ListTypeOK ==
    /\ currentType \in Types \union {Empty} /\ currentFilter \in Filters \union {Empty}
    /\ filterInput \in Filters \union {Empty} /\ debounceTimer \in BOOLEAN
    /\ currentPage \in 1..Cardinality(Entities)
    /\ entityList \in Queries \union {None, Failed} /\ firstLoad \in BOOLEAN
    /\ listReqs \in [Queries -> Nat]

PanelTypeOK ==
    /\ connections \in Entities \union {None, Failed}
    /\ connReqs \in [ConnRequests -> Nat]
    /\ preview \in Recoveries \union {None, Failed}
    /\ previewReqs \in [Recoveries -> Nat]
    /\ history \in Seq(Entry) /\ here \in DOMAIN history

OtherTypeOK ==
    activeItem \in Entities \union {None} /\ crossed \subseteq Panels /\ exploreEvents \in Nat

LEMMA TypeParts == ExploreTypeOK <=> ListTypeOK /\ PanelTypeOK /\ OtherTypeOK
BY DEF ExploreTypeOK, ListTypeOK, PanelTypeOK, OtherTypeOK

LEMMA SomeEntities == Cardinality(Entities) \in Nat \ {0}
<1>1. Cardinality(Entities) \in Nat
  BY FS_CardinalityType, ExploreAssumption
<1>2. Cardinality(Entities) # 0
  BY FS_EmptySet, ExploreAssumption
<1>3. QED
  BY <1>1, <1>2

LEMMA FirstPage ==
    ASSUME NEW type \in Types \union {Empty}, NEW filter \in Filters \union {Empty}
    PROVE  1 \in 1..Cardinality(Entities) /\ Shown(type, filter, 1) \in Queries
BY SomeEntities DEF Shown, Queries

\* The next page of a list that has more is a page the entities can fill.
LEMMA NextPage ==
    ASSUME NEW q \in Queries, HasMore(q)
    PROVE  q.page + 1 \in 1..Cardinality(Entities)
<1>1. Matching(q) \subseteq Entities /\ q.page \in 1..Cardinality(Entities)
  BY DEF Matching, Queries
<1>2. IsFiniteSet(Matching(q)) /\ Cardinality(Matching(q)) <= Cardinality(Entities)
  BY <1>1, FS_Subset, ExploreAssumption
<1>3. Cardinality(Matching(q)) \in Nat
  BY <1>2, FS_CardinalityType
<1>4. \A m, n \in Nat : n # 0 => m <= m * n
  BY SMT
<1>5. q.page <= q.page * PerPage /\ q.page * PerPage \in Nat
  BY <1>1, <1>4, SomeEntities, ExploreAssumption
<1>6. QED
  BY <1>1, <1>2, <1>3, <1>5, SomeEntities DEF HasMore

LEMMA ListStepKeepsTypes ==
    ASSUME ListTypeOK, ListStep
    PROVE  ListTypeOK'
<1>1. ASSUME NEW type \in Types \union {Empty}, NEW filter \in Filters \union {Empty},
             NEW page \in 1..Cardinality(Entities), FetchEntityList(type, filter, page)
      PROVE  listReqs' \in [Queries -> Nat] /\ currentPage' \in 1..Cardinality(Entities)
  <2>1. Shown(type, filter, page) \in Queries
    BY DEF Shown, Queries
  <2>2. QED
    BY <1>1, <2>1, Sending DEF FetchEntityList, ListTypeOK
<1>2. ASSUME NEW q \in Queries, AnswerList(q) PROVE ListTypeOK'
  BY <1>2, Answering DEF AnswerList, ReplaceList, inputVars, ListTypeOK
<1>3. CASE FirstList
  <2>1. Shown(Empty, Empty, 1) \in Queries
    BY FirstPage
  <2>2. QED
    BY <1>3, <2>1 DEF FirstList, ReplaceList, inputVars, ListTypeOK
<1>4. CASE LoadMore
  <2>1. entityList.page + 1 \in 1..Cardinality(Entities)
    BY <1>4, NextPage DEF LoadMore
  <2>2. listReqs' \in [Queries -> Nat] /\ currentPage' \in 1..Cardinality(Entities)
    BY <1>1, <1>4, <2>1 DEF LoadMore, ListTypeOK
  <2>3. QED
    BY <1>4, <2>2 DEF LoadMore, inputVars, ListTypeOK
<1>5. CASE Debounced
  <2>1. listReqs' \in [Queries -> Nat] /\ currentPage' \in 1..Cardinality(Entities)
    BY <1>1, <1>5, FirstPage DEF Debounced, ListTypeOK
  <2>2. QED
    BY <1>5, <2>1 DEF Debounced, ListTypeOK
<1>6. ASSUME NEW text \in Filters \union {Empty}, TypeFilter(text) PROVE ListTypeOK'
  BY <1>6 DEF TypeFilter, listVars, ListTypeOK
<1>7. ASSUME NEW type \in Types \union {Empty}, ChooseType(type) PROVE ListTypeOK'
  <2>1. listReqs' \in [Queries -> Nat] /\ currentPage' \in 1..Cardinality(Entities)
    BY <1>1, <1>7, FirstPage DEF ChooseType, ListTypeOK
  <2>2. QED
    BY <1>7, <2>1 DEF ChooseType, inputVars, ListTypeOK
<1>8. QED
  BY <1>2, <1>3, <1>4, <1>5, <1>6, <1>7 DEF ListStep

LEMMA PanelStepKeepsTypes ==
    ASSUME PanelTypeOK, PanelStep
    PROVE  PanelTypeOK'
<1> USE DEF PanelTypeOK
<1>1. ASSUME NEW e \in Entities, NEW cause \in Causes, FetchConnections(e, cause)
      PROVE  connReqs' \in [ConnRequests -> Nat]
  <2>1. [entity |-> e, cause |-> cause] \in ConnRequests
    BY DEF ConnRequests
  <2>2. QED
    BY <1>1, <2>1, Sending DEF FetchConnections
<1>2. ASSUME NEW e \in Entities, ClickEntity(e) PROVE PanelTypeOK'
  <2>1. connReqs' \in [ConnRequests -> Nat]
    BY <1>1, <1>2 DEF ClickEntity, Causes
  <2>2. QED
    BY <1>2, <2>1, Pushing DEF ClickEntity, previewVars
<1>3. ASSUME NEW e \in Entities, ClickLinked(e) PROVE PanelTypeOK'
  <2>1. connReqs' \in [ConnRequests -> Nat]
    BY <1>1, <1>3 DEF ClickLinked, Causes
  <2>2. QED
    BY <1>3, <2>1 DEF ClickLinked, previewVars, historyVars
<1>4. ASSUME NEW d \in Recoveries, ClickRecovery(d) PROVE PanelTypeOK'
  BY <1>4, Sending DEF ClickRecovery, connVars, historyVars
<1>5. ASSUME NEW d \in Recoveries, AnswerPreview(d) PROVE PanelTypeOK'
  BY <1>5, Answering DEF AnswerPreview, connVars, historyVars
<1>6. ASSUME NEW e \in Entities, NEW cause \in Causes, AnswerConnections(e, cause) PROVE PanelTypeOK'
  <2>1. connReqs' \in [ConnRequests -> Nat]
    BY <1>6, Answering DEF AnswerConnections, ConnRequests
  <2>2. UNCHANGED previewReqs
    BY <1>6 DEF AnswerConnections
  <2>3. CASE ConnectionsFail
    BY <2>1, <2>2, <2>3 DEF ConnectionsFail, historyVars
  <2>4. CASE ConnectionsArrive(e, cause)
    <3>1. CASE ArriveFromClick(e)
      BY <2>1, <2>2, <2>4, <3>1 DEF ConnectionsArrive, ArriveFromClick, ClearPreview, historyVars
    <3>2. CASE ArriveFromSlide(e)
      BY <2>1, <2>2, <2>4, <3>2, Pushing DEF ConnectionsArrive, ArriveFromSlide, ClearPreview
    <3>3. CASE ArriveFromPopState(e)
      BY <2>1, <2>2, <2>4, <3>3 DEF ConnectionsArrive, ArriveFromPopState, historyVars
    <3>4. CASE ArriveFromUrl(e)
      <4>1. [url |-> e, state |-> e] \in Entry
        BY DEF Entry
      <4>2. history' \in Seq(Entry) /\ here' \in DOMAIN history'
        BY <3>4, <4>1 DEF ArriveFromUrl
      <4>3. QED
        BY <2>1, <2>2, <2>4, <3>4, <4>2 DEF ConnectionsArrive, ArriveFromUrl
    <3>5. QED
      BY <2>4, <3>1, <3>2, <3>3, <3>4 DEF ConnectionsArrive
  <2>5. QED
    BY <1>6, <2>3, <2>4 DEF AnswerConnections
<1>7. ASSUME NEW to \in DOMAIN history, GoTo(to) PROVE PanelTypeOK'
  <2>1. CASE history[to].state # None
    <3>1. history[to].state \in Entities
      <4>1. history[to] \in Entry
        OBVIOUS
      <4>2. QED
        BY <2>1, <4>1 DEF Entry
    <3>2. connReqs' \in [ConnRequests -> Nat]
      BY <1>1, <1>7, <2>1, <3>1 DEF GoTo, Causes
    <3>3. QED
      BY <1>7, <2>1, <3>2 DEF GoTo
  <2>2. CASE history[to].state = None
    BY <1>7, <2>2 DEF GoTo, ShowPlaceholders
  <2>3. QED
    BY <2>1, <2>2
<1>8. QED
  BY <1>2, <1>3, <1>4, <1>5, <1>6, <1>7 DEF PanelStep

\* What the steps of the list leave alone, and those of the panels.
LEMMA ListStepLeaves ==
    ASSUME ListStep
    PROVE  /\ UNCHANGED <<connections, connReqs, preview, previewReqs, history, here>>
           /\ crossed' \in {crossed, crossed \union {"list"}, crossed \ {"list"}}
<1>1. \A type, filter, page : FetchEntityList(type, filter, page) =>
        crossed' \in {crossed, crossed \union {"list"}, crossed \ {"list"}}
  BY DEF FetchEntityList
<1>2. QED
  BY <1>1 DEF ListStep, AnswerList, FirstList, LoadMore, Debounced, TypeFilter, ChooseType,
              connVars, previewVars, historyVars

LEMMA PanelStepLeaves ==
    ASSUME PanelStep
    PROVE  /\ UNCHANGED <<currentType, currentFilter, currentPage, entityList, listReqs, firstLoad,
                          filterInput, debounceTimer>>
           /\ "list" \in crossed' <=> "list" \in crossed
<1>1. UNCHANGED <<listVars, inputVars>>
  BY DEF PanelStep, ClickEntity, ClickLinked, ClickRecovery, AnswerPreview, AnswerConnections, GoTo
<1>2. \A e, cause : FetchConnections(e, cause) => ("list" \in crossed' <=> "list" \in crossed)
  BY DEF FetchConnections
<1>3. \A e, cause : ConnectionsArrive(e, cause) => ("list" \in crossed' <=> "list" \in crossed)
  BY DEF ConnectionsArrive, ArriveFromClick, ArriveFromSlide, ArriveFromPopState, ArriveFromUrl,
         ClearPreview
<1>4. "list" \in crossed' <=> "list" \in crossed
  <2>1. ASSUME NEW e \in Entities, ClickEntity(e) \/ ClickLinked(e)
        PROVE  "list" \in crossed' <=> "list" \in crossed
    BY <1>2, <2>1 DEF ClickEntity, ClickLinked
  <2>2. ASSUME NEW d \in Recoveries, ClickRecovery(d) \/ AnswerPreview(d)
        PROVE  "list" \in crossed' <=> "list" \in crossed
    BY <2>2 DEF ClickRecovery, AnswerPreview
  <2>3. ASSUME NEW e \in Entities, NEW cause \in Causes, AnswerConnections(e, cause)
        PROVE  "list" \in crossed' <=> "list" \in crossed
    BY <1>3, <2>3 DEF AnswerConnections, ConnectionsFail
  <2>4. ASSUME NEW to, GoTo(to)
        PROVE  "list" \in crossed' <=> "list" \in crossed
    BY <1>2, <2>4 DEF GoTo, ShowPlaceholders
  <2>5. QED
    BY <2>1, <2>2, <2>3, <2>4 DEF PanelStep
<1>5. QED
  BY <1>1, <1>4 DEF listVars, inputVars

LEMMA StepKeepsTypes ==
    ASSUME ExploreTypeOK, [ExploreNext]_exploreVars
    PROVE  ExploreTypeOK'
<1>1. ListTypeOK /\ PanelTypeOK /\ OtherTypeOK
  BY TypeParts
<1>2. CASE ListStep
  <2>1. PanelTypeOK'
    BY <1>1, <1>2, ListStepLeaves DEF PanelTypeOK
  <2>2. OtherTypeOK'
    <3>1. crossed' \subseteq Panels
      BY <1>1, <1>2, ListStepLeaves DEF OtherTypeOK, Panels
    <3>2. activeItem' \in {activeItem, None} /\ exploreEvents' \in {exploreEvents, exploreEvents + 1}
      BY <1>2 DEF ListStep, AnswerList, FirstList, LoadMore, Debounced, TypeFilter, ChooseType,
                  ReplaceList, UserEvent
    <3>3. QED
      BY <1>1, <3>1, <3>2 DEF OtherTypeOK
  <2>3. ListTypeOK'
    BY <1>1, <1>2, ListStepKeepsTypes
  <2>4. QED
    BY <2>1, <2>2, <2>3 DEF ExploreTypeOK, ListTypeOK, PanelTypeOK, OtherTypeOK
<1>3. CASE PanelStep
  <2>1. ListTypeOK'
    BY <1>1, <1>3, PanelStepLeaves DEF ListTypeOK
  <2>2. exploreEvents' \in {exploreEvents, exploreEvents + 1}
    BY <1>3 DEF PanelStep, ClickEntity, ClickLinked, ClickRecovery, AnswerPreview,
                      AnswerConnections, GoTo, UserEvent
  <2>3. activeItem' \in Entities \union {None}
    BY <1>1, <1>3 DEF PanelStep, ClickEntity, ClickLinked, ClickRecovery, AnswerPreview,
                      AnswerConnections, ConnectionsArrive, ConnectionsFail, GoTo, ArriveFromClick,
                      ArriveFromSlide, ArriveFromPopState, ArriveFromUrl, HighlightIfListed, OtherTypeOK
  <2>4. crossed' \subseteq Panels
    <3>1. ASSUME NEW e \in Entities, ClickEntity(e) \/ ClickLinked(e) PROVE crossed' \subseteq Panels
      BY <1>1, <3>1 DEF ClickEntity, ClickLinked, FetchConnections, OtherTypeOK, Panels
    <3>2. ASSUME NEW d \in Recoveries, ClickRecovery(d) \/ AnswerPreview(d) PROVE crossed' \subseteq Panels
      BY <1>1, <3>2 DEF ClickRecovery, AnswerPreview, OtherTypeOK, Panels
    <3>3. ASSUME NEW e \in Entities, NEW cause \in Causes, AnswerConnections(e, cause)
          PROVE  crossed' \subseteq Panels
      BY <1>1, <3>3 DEF AnswerConnections, ConnectionsArrive, ConnectionsFail, ArriveFromClick,
                        ArriveFromSlide, ArriveFromPopState, ArriveFromUrl, ClearPreview, OtherTypeOK
    <3>4. ASSUME NEW to, GoTo(to) PROVE crossed' \subseteq Panels
      BY <1>1, <3>4 DEF GoTo, FetchConnections, ShowPlaceholders, OtherTypeOK, Panels
    <3>5. QED
      BY <1>3, <3>1, <3>2, <3>3, <3>4 DEF PanelStep
  <2>5. OtherTypeOK'
    BY <1>1, <2>2, <2>3, <2>4 DEF OtherTypeOK
  <2>6. PanelTypeOK'
    BY <1>1, <1>3, PanelStepKeepsTypes
  <2>7. QED
    BY <2>1, <2>5, <2>6 DEF ExploreTypeOK, ListTypeOK, PanelTypeOK, OtherTypeOK
<1>4. CASE UNCHANGED exploreVars
  BY <1>4 DEF exploreVars, listVars, inputVars, connVars, previewVars, historyVars, ExploreTypeOK
<1>5. QED
  BY <1>2, <1>3, <1>4, Steps

LEMMA InitTypes == ExploreInit => ExploreTypeOK
<1> SUFFICES ASSUME ExploreInit PROVE ExploreTypeOK
  OBVIOUS
<1>1. ListTypeOK
  BY FirstPage DEF ExploreInit, ListTypeOK, Unsent
<1>2. PanelTypeOK
  <2>1. PICK e \in Entities \union {None} :
           /\ history = <<[url |-> e, state |-> None]>>
           /\ connReqs = [r \in ConnRequests |-> IF r = [entity |-> e, cause |-> "initial"] THEN 1 ELSE 0]
    BY DEF ExploreInit
  <2>2. [url |-> e, state |-> None] \in Entry
    BY DEF Entry
  <2>3. history \in Seq(Entry) /\ here \in DOMAIN history
    BY <2>1, <2>2 DEF ExploreInit
  <2>4. connReqs \in [ConnRequests -> Nat]
    BY <2>1
  <2>5. QED
    BY <2>3, <2>4 DEF ExploreInit, PanelTypeOK, Unsent
<1>3. OtherTypeOK
  BY DEF ExploreInit, OtherTypeOK
<1>4. QED
  BY <1>1, <1>2, <1>3, TypeParts

\* Every variable of the page keeps its type: no panel asks for a page of the
\* list that the entities cannot fill, the history never loses its place.
THEOREM TypeCorrect == ExploreSpec => []ExploreTypeOK
  BY InitTypes, StepKeepsTypes, PTL DEF ExploreSpec

-----------------------------------------------------------------------------
(* The list. *)

Current == Shown(currentType, currentFilter, currentPage)

ShowsCurrent ==
    \/ entityList \in {Failed, Current}
    \/ entityList = None /\ Current = Shown(Empty, Empty, 1)

\* A request for the list that overlaps no other is for what the controls say.
ListInv ==
    /\ debounceTimer \/ currentFilter = filterInput
    /\ \/ "list" \in crossed
       \/ /\ \A q \in Queries : listReqs[q] > 0 => q = Current /\ ~firstLoad
          /\ firstLoad => entityList = None /\ Current = Shown(Empty, Empty, 1)
          /\ Pending(listReqs) \/ ShowsCurrent

LEMMA FetchIsForCurrent ==
    ASSUME ListTypeOK, ListInv, NEW type \in Types \union {Empty}, NEW filter \in Filters \union {Empty},
           NEW page \in 1..Cardinality(Entities), FetchEntityList(type, filter, page),
           currentType' = type, currentFilter' = filter, UNCHANGED <<firstLoad, entityList>>,
           debounceTimer' \/ currentFilter' = filterInput'
    PROVE  ListInv'
<1> DEFINE q == Shown(type, filter, page)
<1>1. q \in Queries /\ Current' = q
  BY DEF Shown, Queries, Current, FetchEntityList
<1>2. /\ Pending(listReqs)' /\ listReqs' = Sent(listReqs, q)
      /\ ~Pending(listReqs) => \A r \in Queries : listReqs'[r] > 0 => r = q
  BY <1>1, Sending DEF ListTypeOK, FetchEntityList
<1>3. CASE Pending(listReqs) \/ firstLoad
  BY <1>3 DEF FetchEntityList, ListInv
<1>4. CASE ~(Pending(listReqs) \/ firstLoad)
  BY <1>1, <1>2, <1>4 DEF ListInv
<1>5. QED
  BY <1>3, <1>4

LEMMA ListStepKeepsList ==
    ASSUME ListTypeOK, ListInv, ListStep
    PROVE  ListInv'
<1>1. ASSUME NEW q \in Queries, AnswerList(q) PROVE ListInv'
  <2>1. /\ UNCHANGED <<debounceTimer, currentFilter, filterInput, crossed, firstLoad>> /\ Current' = Current
        /\ entityList' \in {q, Failed} /\ listReqs[q] > 0 /\ listReqs' = Answered(listReqs, q)
    BY <1>1 DEF AnswerList, ReplaceList, inputVars, Current, Shown
  <2>2. \A r \in Queries : listReqs'[r] > 0 => listReqs[r] > 0
    BY <2>1, Answering DEF ListTypeOK
  <2>3. CASE "list" \notin crossed
    <3>1. q = Current /\ ~firstLoad
      BY <2>1, <2>3 DEF ListInv
    <3>2. ShowsCurrent'
      BY <2>1, <3>1 DEF ShowsCurrent
    <3>3. QED
      BY <2>1, <2>2, <2>3, <3>1, <3>2 DEF ListInv
  <2>4. QED
    BY <2>1, <2>3 DEF ListInv
<1>2. CASE FirstList
  <2>1. /\ UNCHANGED <<debounceTimer, currentFilter, filterInput, crossed, listReqs>> /\ Current' = Current
        /\ firstLoad /\ ~firstLoad' /\ entityList' \in {entityList, Shown(Empty, Empty, 1)}
    BY <1>2 DEF FirstList, ReplaceList, inputVars, Current, Shown
  <2>2. CASE "list" \notin crossed
    <3>1. entityList = None /\ Current = Shown(Empty, Empty, 1)
      BY <2>1, <2>2 DEF ListInv
    <3>2. ShowsCurrent'
      BY <2>1, <3>1 DEF ShowsCurrent
    <3>3. QED
      BY <2>1, <2>2, <3>2 DEF ListInv
  <2>3. QED
    BY <2>1, <2>2 DEF ListInv
<1>3. CASE LoadMore
  <2>1. entityList.page + 1 \in 1..Cardinality(Entities)
    BY <1>3, NextPage DEF LoadMore
  <2>2. debounceTimer' \/ currentFilter' = filterInput'
    BY <1>3 DEF LoadMore, inputVars, ListInv
  <2>3. QED
    BY <1>3, <2>1, <2>2, FetchIsForCurrent DEF LoadMore, ListTypeOK
<1>4. CASE Debounced
  BY <1>4, FetchIsForCurrent, FirstPage DEF Debounced, ListTypeOK
<1>5. ASSUME NEW text \in Filters \union {Empty}, TypeFilter(text) PROVE ListInv'
  BY <1>5 DEF TypeFilter, listVars, ListInv, Current, Shown, ShowsCurrent
<1>6. ASSUME NEW type \in Types \union {Empty}, ChooseType(type) PROVE ListInv'
  <2>1. debounceTimer' \/ currentFilter' = filterInput'
    BY <1>6 DEF ChooseType, inputVars, ListInv
  <2>2. QED
    BY <1>6, <2>1, FetchIsForCurrent, FirstPage DEF ChooseType, ListTypeOK
<1>7. QED
  BY <1>1, <1>2, <1>3, <1>4, <1>5, <1>6 DEF ListStep

-----------------------------------------------------------------------------
(* The connections and the address. *)

Visit(e) == [url |-> e, state |-> e]

\* Every entry of the history can be shown again, but for the first.
HistoryInv ==
    \A i \in 1..Len(history) :
        \/ \E e \in Entities : history[i] = Visit(e)
        \/ i = 1 /\ history[i].state = None

AddressShown == \/ connections \in {Failed, history[here].url}
                \/ history[here].state # history[here].url

\* A request for connections that overlaps no other is alone, and the address
\* waits for it already if a click or the history has sent it.
ConnInv ==
    \/ "connections" \in crossed
    \/ /\ \A r, s \in ConnRequests : connReqs[r] > 0 /\ connReqs[s] > 0 => r = s /\ connReqs[r] = 1
       /\ \A r \in ConnRequests :
             connReqs[r] > 0 /\ r.cause \in {"click", "popstate"} => history[here] = Visit(r.entity)
       /\ Pending(connReqs) \/ AddressShown

\* Asking for connections: the new request is the only one, or they overlap.
LEMMA AskingConnections ==
    ASSUME PanelTypeOK, NEW e \in Entities, NEW cause \in Causes, FetchConnections(e, cause),
           cause \in {"click", "popstate"} => history'[here'] = Visit(e)
    PROVE  ConnInv'
<1> DEFINE r == [entity |-> e, cause |-> cause]
<1>1. r \in ConnRequests /\ r.entity = e /\ r.cause = cause
  BY DEF ConnRequests
<1>2. /\ Pending(connReqs)' /\ connReqs' = Sent(connReqs, r)
      /\ ~Pending(connReqs) => \A s \in ConnRequests : connReqs'[s] > 0 => s = r /\ connReqs'[s] = 1
  BY <1>1, Sending DEF FetchConnections, PanelTypeOK
<1>3. CASE Pending(connReqs)
  BY <1>3 DEF FetchConnections, ConnInv
<1>4. CASE ~Pending(connReqs)
  BY <1>1, <1>2, <1>4 DEF ConnInv
<1>5. QED
  BY <1>3, <1>4

\* A new entry leaves a history that can be shown again.
LEMMA PushingKeepsHistory ==
    ASSUME PanelTypeOK, HistoryInv, NEW e \in Entities, PushState(e)
    PROVE  HistoryInv' /\ history'[here'] = Visit(e)
<1>1. /\ Len(history') = here + 1 /\ here' = here + 1 /\ here \in Nat \ {0}
      /\ \A i \in 1..here : history'[i] = history[i]
      /\ history'[here'] = [url |-> e, state |-> e] /\ here <= Len(history) /\ Len(history) \in Nat
  <2>1. history \in Seq(Entry) /\ here \in DOMAIN history
    BY DEF PanelTypeOK
  <2>2. here <= Len(history) /\ Len(history) \in Nat
    BY <2>1
  <2>3. QED
    BY <2>1, <2>2, Pushing
<1>2. ASSUME NEW i \in 1..Len(history')
      PROVE  (\E f \in Entities : history'[i] = Visit(f)) \/ (i = 1 /\ history'[i].state = None)
  <2>1. CASE i = here + 1
    BY <1>1, <2>1 DEF Visit
  <2>2. CASE i # here + 1
    <3>1. i \in 1..here /\ i \in 1..Len(history)
      BY <1>1, <2>2
    <3>2. QED
      BY <1>1, <3>1 DEF HistoryInv
  <2>3. QED
    BY <2>1, <2>2
<1>3. QED
  BY <1>1, <1>2 DEF HistoryInv, Visit

\* An answer was the only one outstanding, unless requests overlapped.
LEMMA OneAnswer ==
    ASSUME PanelTypeOK, ConnInv, NEW e \in Entities, NEW cause \in Causes, AnswerConnections(e, cause),
           "connections" \notin crossed
    PROVE  /\ \A s \in ConnRequests : connReqs'[s] = 0
           /\ ~Pending(connReqs')
           /\ cause \in {"click", "popstate"} => history[here] = Visit(e)
<1> DEFINE r == [entity |-> e, cause |-> cause]
<1>1. r \in ConnRequests /\ r.entity = e /\ r.cause = cause /\ connReqs \in [ConnRequests -> Nat]
  BY DEF ConnRequests, PanelTypeOK
<1>2. connReqs[r] > 0 /\ connReqs' = [connReqs EXCEPT ![r] = @ - 1]
  BY DEF AnswerConnections, Answered
<1>3. \A s \in ConnRequests : connReqs[s] > 0 => s = r /\ connReqs[r] = 1
  BY <1>1, <1>2 DEF ConnInv
<1>4. \A s \in ConnRequests : connReqs'[s] = 0
  BY <1>1, <1>2, <1>3
<1>5. ~Pending(connReqs')
  BY <1>1, <1>2, <1>4 DEF Pending
<1>6. QED
  BY <1>1, <1>2, <1>4, <1>5 DEF ConnInv

LEMMA PanelStepKeepsConnections ==
    ASSUME PanelTypeOK, HistoryInv, ConnInv, PanelStep
    PROVE  HistoryInv' /\ ConnInv'
<1>1. ASSUME NEW e \in Entities, ClickEntity(e) PROVE HistoryInv' /\ ConnInv'
  BY <1>1, PushingKeepsHistory, AskingConnections DEF ClickEntity, Causes
<1>2. ASSUME NEW e \in Entities, ClickLinked(e) PROVE HistoryInv' /\ ConnInv'
  <2>1. ConnInv'
    BY <1>2, AskingConnections DEF ClickLinked, Causes
  <2>2. QED
    BY <1>2, <2>1 DEF ClickLinked, historyVars, HistoryInv
<1>3. ASSUME NEW d \in Recoveries, ClickRecovery(d) \/ AnswerPreview(d) PROVE HistoryInv' /\ ConnInv'
  <2>1. UNCHANGED <<connections, connReqs, history, here>> /\ ("connections" \in crossed' <=> "connections" \in crossed)
    BY <1>3 DEF ClickRecovery, AnswerPreview, connVars, historyVars
  <2>2. QED
    BY <2>1 DEF HistoryInv, ConnInv, AddressShown
<1>4. ASSUME NEW e \in Entities, NEW cause \in Causes, AnswerConnections(e, cause)
      PROVE  HistoryInv' /\ ConnInv'
  <2>1. /\ "connections" \in crossed' <=> "connections" \in crossed
        /\ connections' \in {e, Failed}
    BY <1>4 DEF AnswerConnections, ConnectionsArrive, ConnectionsFail, ArriveFromClick, ArriveFromSlide,
                ArriveFromPopState, ArriveFromUrl, ClearPreview
  <2>2. ASSUME HistoryInv', AddressShown' PROVE HistoryInv' /\ ConnInv'
    <3>1. CASE "connections" \in crossed
      BY <2>1, <2>2, <3>1 DEF ConnInv
    <3>2. CASE "connections" \notin crossed
      <4>1. \A s \in ConnRequests : connReqs'[s] = 0
        BY <1>4, <3>2, OneAnswer
      <4>2. QED
        BY <2>2, <4>1 DEF ConnInv
    <3>3. QED
      BY <3>1, <3>2
  <2>3. CASE ConnectionsFail
    BY <2>2, <2>3 DEF ConnectionsFail, historyVars, HistoryInv, AddressShown
  <2>4. CASE connections' = e /\ cause \in {"click", "popstate"} /\ UNCHANGED historyVars
    <3>1. HistoryInv'
      BY <2>4 DEF historyVars, HistoryInv
    <3>2. CASE "connections" \in crossed
      BY <2>1, <3>1, <3>2 DEF ConnInv
    <3>3. CASE "connections" \notin crossed
      <4>1. history'[here'] = Visit(e)
        BY <1>4, <2>4, <3>3, OneAnswer DEF historyVars
      <4>2. QED
        BY <2>2, <2>4, <3>1, <4>1 DEF AddressShown, Visit
    <3>4. QED
      BY <3>2, <3>3
  <2>5. CASE connections' = e /\ PushState(e)
    <3>1. HistoryInv' /\ history'[here'] = Visit(e)
      BY <2>5, PushingKeepsHistory
    <3>2. AddressShown'
      BY <2>5, <3>1 DEF AddressShown, Visit
    <3>3. QED
      BY <2>2, <3>1, <3>2
  <2>6. CASE connections' = e /\ ArriveFromUrl(e)
    <3>1. /\ history \in Seq(Entry) /\ here \in 1..Len(history) /\ here' = here
          /\ history' = [history EXCEPT ![here] = Visit(e)]
      BY <2>6 DEF ArriveFromUrl, PanelTypeOK, Visit
    <3>2. Len(history') = Len(history) /\ history'[here'] = Visit(e)
      BY <3>1
    <3>3. \A i \in 1..Len(history) : i # here => history'[i] = history[i]
      BY <3>1
    <3>4. QED
      BY <2>2, <2>6, <3>1, <3>2, <3>3 DEF HistoryInv, AddressShown, Visit
  <2>7. QED
    BY <1>4, <2>3, <2>4, <2>5, <2>6
    DEF AnswerConnections, ConnectionsArrive, ArriveFromClick, ArriveFromSlide, ArriveFromPopState
<1>5. ASSUME NEW to \in DOMAIN history, GoTo(to) PROVE HistoryInv' /\ ConnInv'
  <2>1. HistoryInv' /\ history' = history /\ here' = to /\ to \in 1..Len(history)
    BY <1>5 DEF GoTo, HistoryInv, PanelTypeOK
  <2>2. CASE history[to].state # None
    <3>1. PICK e \in Entities : history[to] = Visit(e)
      BY <2>1, <2>2 DEF HistoryInv
    <3>2. FetchConnections(e, "popstate")
      BY <1>5, <2>2, <3>1 DEF GoTo, Visit
    <3>3. QED
      BY <2>1, <3>1, <3>2, AskingConnections DEF Causes
  <2>3. CASE history[to].state = None
    <3>1. /\ connections' = None /\ UNCHANGED connReqs
          /\ "connections" \in crossed' <=> Pending(connReqs)
      BY <1>5, <2>3 DEF GoTo, ShowPlaceholders
    <3>2. CASE ~Pending(connReqs)
      <4>1. \A r \in ConnRequests : ~(connReqs'[r] > 0)
        BY <3>1, <3>2 DEF Pending, PanelTypeOK
      <4>2. AddressShown'
        BY <2>1, <2>3, <3>1 DEF AddressShown
      <4>3. QED
        BY <2>1, <4>1, <4>2 DEF ConnInv
    <3>3. QED
      BY <2>1, <3>1, <3>2 DEF ConnInv
  <2>4. QED
    BY <2>2, <2>3
<1>6. QED
  BY <1>1, <1>2, <1>3, <1>4, <1>5 DEF PanelStep

-----------------------------------------------------------------------------
(* The preview. *)

Kept == {"popstate", "initial"}

Fits == \/ preview \in {None, Failed} \/ connections = Failed
        \/ connections \in Entities /\ preview \in Mentions[connections]

\* Until the next answer is there, no preview is asked for that would not fit,
\* and none is kept that the answer would leave beside another entity.
PreviewInv ==
    \/ "preview" \in crossed
    \/ /\ \A d \in Recoveries : previewReqs[d] > 0 =>
             ~Pending(connReqs) /\ connections \in Entities /\ d \in Mentions[connections]
       /\ \A r \in ConnRequests : connReqs[r] > 0 /\ r.cause \in Kept => preview \in {None, Failed}
       /\ Pending(connReqs) \/ Pending(previewReqs) \/ Fits

\* Asking for connections keeps the preview from being asked for, not from
\* being shown: it goes when they are there.
LEMMA AskingKeepsPreview ==
    ASSUME PanelTypeOK, PreviewInv, NEW e \in Entities, NEW cause \in Causes \ {"initial"},
           FetchConnections(e, cause), UNCHANGED <<connections, preview, previewReqs>>
    PROVE  PreviewInv'
<1> DEFINE r == [entity |-> e, cause |-> cause]
<1>1. r \in ConnRequests /\ r.cause = cause
  BY DEF ConnRequests
<1>2. /\ Pending(connReqs)' /\ connReqs' = Sent(connReqs, r)
      /\ \A s \in ConnRequests : connReqs'[s] > 0 => s = r \/ connReqs[s] > 0
  BY <1>1, Sending DEF FetchConnections, PanelTypeOK
<1> DEFINE Crosses == Pending(previewReqs) \/ (cause = "popstate" /\ preview # None)
<1>3. CASE Crosses \/ "preview" \in crossed
  BY <1>3 DEF FetchConnections, PreviewInv
<1>4. CASE ~(Crosses \/ "preview" \in crossed)
  <2>1. \A d \in Recoveries : ~(previewReqs'[d] > 0)
    BY <1>4 DEF Pending, PanelTypeOK
  <2>2. r.cause \in Kept => preview' \in {None, Failed}
    BY <1>1, <1>4 DEF Kept, Causes
  <2>3. QED
    BY <1>2, <1>4, <2>1, <2>2 DEF PreviewInv
<1>5. QED
  BY <1>3, <1>4

\* An empty preview fits, whatever is asked for.
LEMMA EmptyFits ==
    ASSUME PanelTypeOK, PreviewInv, preview' = None, previewReqs' = previewReqs,
           crossed' = IF Pending(previewReqs) THEN crossed ELSE crossed \ {"preview"},
           "preview" \notin crossed /\ Pending(previewReqs)
               => connReqs' = connReqs /\ connections' = connections
    PROVE  PreviewInv'
<1>1. CASE ~Pending(previewReqs)
  <2>1. \A d \in Recoveries : ~(previewReqs'[d] > 0)
    BY <1>1 DEF Pending, PanelTypeOK
  <2>2. QED
    BY <2>1 DEF PreviewInv, Fits
<1>2. CASE Pending(previewReqs) /\ "preview" \notin crossed
  BY <1>2 DEF PreviewInv, Fits
<1>3. CASE Pending(previewReqs) /\ "preview" \in crossed
  BY <1>3 DEF PreviewInv
<1>4. QED
  BY <1>1, <1>2, <1>3

LEMMA PanelStepKeepsPreview ==
    ASSUME PanelTypeOK, PreviewInv, HistoryInv, PanelStep
    PROVE  PreviewInv'
<1>1. ASSUME NEW e \in Entities, ClickEntity(e) \/ ClickLinked(e) PROVE PreviewInv'
  BY <1>1, AskingKeepsPreview DEF ClickEntity, ClickLinked, previewVars, Causes
<1>2. ASSUME NEW d \in Recoveries, ClickRecovery(d) PROVE PreviewInv'
  <2>1. /\ UNCHANGED <<connections, connReqs, preview>> /\ previewReqs' = Sent(previewReqs, d)
        /\ connections \in Entities /\ d \in Mentions[connections]
    BY <1>2 DEF ClickRecovery, connVars
  <2>2. /\ Pending(previewReqs)'
        /\ ~Pending(previewReqs) => \A x \in Recoveries : previewReqs'[x] > 0 => x = d
    BY <2>1, Sending DEF PanelTypeOK
  <2>3. CASE Pending(previewReqs) \/ Pending(connReqs)
    BY <1>2, <2>3 DEF ClickRecovery, PreviewInv
  <2>4. CASE ~(Pending(previewReqs) \/ Pending(connReqs))
    <3>1. \A r \in ConnRequests : ~(connReqs'[r] > 0)
      BY <2>1, <2>4 DEF Pending, PanelTypeOK
    <3>2. ~Pending(connReqs')
      BY <2>1, <2>4
    <3>3. QED
      BY <2>1, <2>2, <2>4, <3>1, <3>2 DEF PreviewInv
  <2>5. QED
    BY <2>3, <2>4
<1>3. ASSUME NEW d \in Recoveries, AnswerPreview(d) PROVE PreviewInv'
  <2>1. /\ UNCHANGED <<connections, connReqs, crossed>> /\ preview' \in {d, Failed}
        /\ previewReqs[d] > 0 /\ previewReqs' = Answered(previewReqs, d)
    BY <1>3 DEF AnswerPreview, connVars
  <2>2. \A x \in Recoveries : previewReqs'[x] > 0 => previewReqs[x] > 0
    BY <2>1, Answering DEF PanelTypeOK
  <2>3. CASE "preview" \notin crossed
    <3>1. ~Pending(connReqs) /\ connections \in Entities /\ d \in Mentions[connections]
      BY <2>1, <2>3 DEF PreviewInv
    <3>2. \A r \in ConnRequests : ~(connReqs'[r] > 0)
      BY <2>1, <3>1 DEF Pending, PanelTypeOK
    <3>3. Fits'
      BY <2>1, <3>1 DEF Fits
    <3>4. QED
      BY <2>1, <2>2, <2>3, <3>2, <3>3 DEF PreviewInv
  <2>4. QED
    BY <2>1, <2>3 DEF PreviewInv
<1>4. ASSUME NEW e \in Entities, NEW cause \in Causes, AnswerConnections(e, cause) PROVE PreviewInv'
  <2> DEFINE r == [entity |-> e, cause |-> cause]
  <2>1. /\ r \in ConnRequests /\ r.cause = cause /\ connReqs[r] > 0 /\ UNCHANGED previewReqs
        /\ connReqs' = Answered(connReqs, r)
    BY <1>4 DEF AnswerConnections, ConnRequests
  <2>2. /\ Pending(connReqs)
        /\ \A s \in ConnRequests : connReqs'[s] > 0 => connReqs[s] > 0
    BY <2>1, Answering DEF PanelTypeOK
  <2>3. CASE "preview" \notin crossed
    <3>1. /\ \A d \in Recoveries : ~(previewReqs[d] > 0)
          /\ ~Pending(previewReqs)
      BY <2>2, <2>3 DEF PreviewInv, PanelTypeOK, Pending
    <3>2. CASE preview' = None /\ "preview" \notin crossed'
      BY <2>1, <3>1, <3>2 DEF PreviewInv, Fits
    <3>3. CASE ConnectionsFail
      BY <2>1, <2>2, <2>3, <3>1, <3>3 DEF ConnectionsFail, PreviewInv, Fits
    <3>4. CASE cause \in Kept /\ UNCHANGED <<preview, crossed>>
      <4>1. preview \in {None, Failed}
        BY <2>1, <2>3, <3>4 DEF PreviewInv
      <4>2. QED
        BY <2>1, <3>1, <3>4, <4>1 DEF PreviewInv, Fits
    <3>5. QED
      BY <1>4, <2>3, <3>2, <3>3, <3>4
      DEF AnswerConnections, ConnectionsArrive, ArriveFromClick, ArriveFromSlide, ArriveFromPopState,
          ArriveFromUrl, ClearPreview, Kept
  <2>4. CASE "preview" \in crossed
    <3>1. CASE ClearPreview
      BY <2>1, <2>4, <3>1, EmptyFits DEF ClearPreview
    <3>2. CASE UNCHANGED crossed
      BY <2>4, <3>2 DEF PreviewInv
    <3>3. QED
      BY <1>4, <3>1, <3>2
      DEF AnswerConnections, ConnectionsArrive, ConnectionsFail, ArriveFromClick, ArriveFromSlide,
          ArriveFromPopState, ArriveFromUrl
  <2>5. QED
    BY <2>3, <2>4
<1>5. ASSUME NEW to \in DOMAIN history, GoTo(to) PROVE PreviewInv'
  <2>1. to \in 1..Len(history)
    BY DEF PanelTypeOK
  <2>2. CASE history[to].state # None
    <3>1. PICK e \in Entities : history[to] = Visit(e)
      BY <2>1, <2>2 DEF HistoryInv
    <3>2. FetchConnections(e, "popstate") /\ UNCHANGED <<connections, preview, previewReqs>>
      BY <1>5, <2>2, <3>1 DEF GoTo, Visit
    <3>3. QED
      BY <3>2, AskingKeepsPreview DEF Causes
  <2>3. CASE history[to].state = None
    <3>1. /\ preview' = None /\ UNCHANGED previewReqs
          /\ "preview" \in crossed' <=> Pending(previewReqs)
      BY <1>5, <2>3 DEF GoTo, ShowPlaceholders
    <3>2. CASE Pending(previewReqs)
      BY <3>1, <3>2 DEF PreviewInv
    <3>3. CASE ~Pending(previewReqs)
      <4>1. \A d \in Recoveries : ~(previewReqs'[d] > 0)
        BY <3>1, <3>3 DEF Pending, PanelTypeOK
      <4>2. QED
        BY <3>1, <4>1 DEF PreviewInv, Fits
    <3>4. QED
      BY <3>2, <3>3
  <2>4. QED
    BY <2>2, <2>3
<1>6. QED
  BY <1>1, <1>2, <1>3, <1>4, <1>5 DEF PanelStep

-----------------------------------------------------------------------------
(* The three panels together. *)

IInv == ExploreTypeOK /\ ListInv /\ HistoryInv /\ ConnInv /\ PreviewInv

LEMMA InitInv == ExploreInit => IInv
<1> SUFFICES ASSUME ExploreInit PROVE IInv
  OBVIOUS
<1>1. ExploreTypeOK
  BY InitTypes
<1>2. ListInv
  <2>1. /\ currentFilter = filterInput /\ entityList = None /\ Current = Shown(Empty, Empty, 1)
        /\ \A q \in Queries : ~(listReqs[q] > 0)
    BY DEF ExploreInit, Unsent, Current
  <2>2. QED
    BY <2>1 DEF ListInv, ShowsCurrent
<1>3. PICK e \in Entities \union {None} :
         /\ history = <<[url |-> e, state |-> None]>>
         /\ connReqs = [r \in ConnRequests |-> IF r = [entity |-> e, cause |-> "initial"] THEN 1 ELSE 0]
  BY DEF ExploreInit
<1>4. here = 1 /\ Len(history) = 1 /\ history[1].url = e /\ history[1].state = None /\ connections = None
  BY <1>3 DEF ExploreInit
<1>5. HistoryInv
  BY <1>4 DEF HistoryInv
<1>6. ConnInv
  <2>1. \A r \in ConnRequests :
           connReqs[r] > 0 => r = [entity |-> e, cause |-> "initial"] /\ connReqs[r] = 1
    BY <1>3
  <2>2. AddressShown
    BY <1>4 DEF AddressShown
  <2>3. QED
    BY <2>1, <2>2 DEF ConnInv
<1>7. PreviewInv
  BY DEF ExploreInit, PreviewInv, Fits, Unsent
<1>8. QED
  BY <1>1, <1>2, <1>5, <1>6, <1>7 DEF IInv

LEMMA NextInv == IInv /\ [ExploreNext]_exploreVars => IInv'
<1> SUFFICES ASSUME IInv, [ExploreNext]_exploreVars PROVE IInv'
  OBVIOUS
<1>1. ExploreTypeOK /\ ListTypeOK /\ PanelTypeOK /\ ListInv /\ HistoryInv /\ ConnInv /\ PreviewInv
  BY TypeParts DEF IInv
<1>2. ExploreTypeOK'
  BY <1>1, StepKeepsTypes
<1>3. CASE ListStep
  <2>1. ListInv'
    BY <1>1, <1>3, ListStepKeepsList
  <2>2. /\ UNCHANGED <<connections, connReqs, preview, previewReqs, history, here>>
        /\ "connections" \in crossed' <=> "connections" \in crossed
        /\ "preview" \in crossed' <=> "preview" \in crossed
    BY <1>3, ListStepLeaves
  <2>3. HistoryInv' /\ ConnInv'
    BY <1>1, <2>2 DEF HistoryInv, ConnInv, AddressShown
  <2>4. PreviewInv'
    BY <1>1, <2>2 DEF PreviewInv, Fits
  <2>5. QED
    BY <1>2, <2>1, <2>3, <2>4 DEF IInv
<1>4. CASE PanelStep
  <2>1. ListInv'
    BY <1>1, <1>4, PanelStepLeaves DEF ListInv, Current, Shown, ShowsCurrent
  <2>2. HistoryInv' /\ ConnInv' /\ PreviewInv'
    BY <1>1, <1>4, PanelStepKeepsConnections, PanelStepKeepsPreview
  <2>3. QED
    BY <1>2, <2>1, <2>2 DEF IInv
<1>5. CASE UNCHANGED exploreVars
  <2>1. ListInv'
    BY <1>1, <1>5 DEF exploreVars, listVars, inputVars, ListInv, Current, Shown, ShowsCurrent
  <2>2. HistoryInv' /\ ConnInv'
    BY <1>1, <1>5 DEF exploreVars, connVars, historyVars, HistoryInv, ConnInv, AddressShown
  <2>3. PreviewInv'
    BY <1>1, <1>5 DEF exploreVars, connVars, previewVars, PreviewInv, Fits
  <2>4. QED
    BY <1>2, <2>1, <2>2, <2>3 DEF IInv
<1>6. QED
  BY <1>3, <1>4, <1>5, Steps

\* What the requests in flight are for stays true in every order of answers.
THEOREM PanelsInductive == ExploreSpec => []IInv
  BY InitInv, NextInv, PTL DEF ExploreSpec

\* At rest the list is the one that the tabs and the filter box ask for, unless
\* the requests for it overlapped.
THEOREM ListIsAskedFor == ExploreSpec => []ListFollowsControls
<1>1. IInv => ListFollowsControls
  BY DEF IInv, ListInv, ListFollowsControls, ShowsCurrent, Current
<1>2. QED
  BY <1>1, PanelsInductive, PTL

\* At rest the middle panel and the address name the same entity, unless its
\* requests overlapped or it failed.
THEOREM AddressIsShown == ExploreSpec => []UrlNamesEntity
<1>1. IInv => UrlNamesEntity
  <2>1. SUFFICES ASSUME IInv PROVE UrlNamesEntity
    OBVIOUS
  <2>2. HistoryInv /\ ConnInv /\ history \in Seq(Entry)
    BY <2>1 DEF IInv, ExploreTypeOK
  <2>3. \A i \in DOMAIN history : history[i].state # history[i].url => i = 1
    <3>1. DOMAIN history = 1..Len(history) /\ \A e \in Entities : Visit(e).state = Visit(e).url
      BY <2>2 DEF Visit
    <3>2. QED
      BY <2>2, <3>1 DEF HistoryInv
  <2>4. QED
    BY <2>2, <2>3 DEF ConnInv, AddressShown, UrlNamesEntity
<1>2. QED
  BY <1>1, PanelsInductive, PTL

\* At rest the preview is of a recovery of the entity shown, for any number of
\* clicks, slides and answers in any order: if the last requests of the panels
\* did not overlap, and if no Back or Forward came with a preview shown.  In those
\* two cases a preview of another entity may stay, and nothing is claimed.
THEOREM PreviewFits == ExploreSpec => []PreviewBelongs
<1>1. IInv => PreviewBelongs
  BY DEF IInv, PreviewInv, Fits, PreviewBelongs
<1>2. QED
  BY <1>1, PanelsInductive, PTL
=============================================================================
