------------------------------ MODULE Api_proofs ------------------------------
(***************************************************************************)
(* What the API promises however its handlers overlap: proofs for every    *)
(* set of clients, applications, endpoints, messages and requests.         *)
(***************************************************************************)
EXTENDS Api, TLAPS

-----------------------------------------------------------------------------
(* Types *)

(* What a handler knows in each of its phases, taken out of its type.      *)
LEMMA HandlerFacts ==
  ASSUME TypeOK, NEW c \in Client
  PROVE  /\ request[c].phase \in {"none", "asked", "resolved", "found", "read", "done"}
         /\ request[c].phase # "none" => request[c].asked \in Requests
         /\ request[c].phase \in {"resolved", "found", "read", "done"} => request[c].app \in App
         /\ At(c, "found") => request[c].asked.op = "delete app" /\ request[c].resolved \in App
         /\ At(c, "read") => /\ request[c].asked.op = "update endpoint"
                             /\ request[c].types \in Filter \cup {Null}
                             /\ request[c].rate \in Rate \cup {Null}
         /\ At(c, "done") => request[c].asked.op = "post" /\ request[c].message \in Message
<1>1. request[c] \in HandlerState
  BY DEF TypeOK
<1>2. CASE request[c] = NoRequest
  <2>1. request[c].phase = "none"
    BY <1>2 DEF NoRequest
  <2> QED
    BY <2>1 DEF At
<1>3. CASE request[c] \in [phase : {"asked"}, asked : Requests]
  BY <1>3 DEF At
<1>4. CASE request[c] \in [phase : {"resolved"}, asked : Requests, app : App]
  BY <1>4 DEF At
<1>5. CASE request[c] \in [phase : {"read"}, asked : {r \in Requests : r.op = "update endpoint"},
                  app : App, types : Filter \cup {Null}, rate : Rate \cup {Null}]
  BY <1>5 DEF At
<1>6. CASE request[c] \in [phase : {"done"}, asked : {r \in Requests : r.op = "post"}, app : App,
                  message : Message]
  BY <1>6 DEF At
<1>7. CASE request[c] \in [phase : {"found"}, asked : {r \in Requests : r.op = "delete app"},
                  app : App, resolved : App]
  BY <1>7 DEF At
<1> QED
  BY <1>1, <1>2, <1>3, <1>4, <1>5, <1>6, <1>7 DEF HandlerState

(* A row that may be written is a row.                                     *)
LEMMA RowsAreRows ==
  \A row \in AppRow \cup EndpointRow \cup MessageRow : Is(row)
BY TablesFit DEF Is

LEMMA IsRow ==
  ASSUME TypeOK
  PROVE  /\ \A a \in App : Is(apps[a]) => apps[a] \in AppRow
         /\ \A e \in Endpoint : Is(endpoints[e]) => endpoints[e] \in EndpointRow
         /\ \A m \in Message : Is(messages[m]) => messages[m] \in MessageRow
BY DEF TypeOK, Is

LEMMA Ends ==
  ASSUME TypeOK, NEW c \in Client, End(c)
  PROVE  /\ request' \in [Client -> HandlerState]
         /\ request'[c] = NoRequest
         /\ \A d \in Client \ {c} : request'[d] = request[d]
BY DEF TypeOK, End, HandlerState

LEMMA Replies ==
  ASSUME TypeOK, NEW c \in Client, NEW m \in Message, Doing(c, "post"), Reply(c, m)
  PROVE  request' \in [Client -> HandlerState]
<1>1. request[c].asked \in {r \in Requests : r.op = "post"} /\ request[c].app \in App
  BY HandlerFacts DEF Doing, At
<1>2. [phase |-> "done", asked |-> request[c].asked, app |-> request[c].app, message |-> m]
        \in HandlerState
  BY <1>1 DEF HandlerState
<1> QED
  BY <1>2 DEF Reply, TypeOK

(* What is named is a row, and an id's own row before any other.           *)
LEMMA NamedAreRows ==
  ASSUME NEW rows, NEW ref, NEW a \in Named(rows, ref)
  PROVE  /\ a \in App /\ Is(rows[a])
         /\ ref \in App /\ Is(rows[ref]) => a = ref
BY DEF Named

LEMMA RemembersNames ==
  ASSUME TypeOK, Remember, apps' \in [App -> AppRow \cup {Unused, Gone}]
  PROVE  meant' \in [Client -> SUBSET [app : App, name : Name]]
<1>1. \A a \in App : Is(apps'[a]) => apps'[a].name \in Name
  BY DEF Is, AppRow
<1>2. \A c \in Client : meant'[c] \in SUBSET [app : App, name : Name]
  <2> SUFFICES ASSUME NEW c \in Client, request'[c].phase # "none"
               PROVE  meant'[c] \in SUBSET [app : App, name : Name]
    BY DEF Remember
  <2> DEFINE named == Named(apps', request'[c].asked.ref)
  <2>1. \A a \in named : a \in App /\ Is(apps'[a])
    BY NamedAreRows
  <2> HIDE DEF named
  <2>2. meant'[c] = meant[c] \cup {[app |-> a, name |-> apps'[a].name] : a \in named}
    BY DEF Remember, named
  <2> QED
    BY <1>1, <2>1, <2>2 DEF TypeOK
<1> QED
  BY <1>2 DEF Remember

(* A delete's second lookup: it finds the application it has resolved, or  *)
(* another one because that one is gone, or none.                          *)
LEMMA FindsOrEnds ==
  ASSUME TypeOK, NEW c \in Client, FindDoomed(c)
  PROVE  /\ request' \in [Client -> HandlerState]
         /\ \A d \in Client \ {c} : request'[d] = request[d]
         /\ \/ request'[c] = NoRequest
            \/ /\ request'[c].phase = "found"
               /\ request'[c].asked = request[c].asked
               /\ request'[c].resolved = request[c].app
               /\ request'[c].app # request[c].app => ~Is(apps[request[c].app])
<1>1. CASE End(c)
  BY <1>1, Ends
<1>2. CASE ~End(c)
  <2>1. PICK a \in FoundAgain(c) : request' = [request EXCEPT ![c] =
            [phase |-> "found", asked |-> request[c].asked, app |-> a,
             resolved |-> request[c].app]]
    BY <1>2 DEF FindDoomed
  <2>2. /\ request[c].asked \in {r \in Requests : r.op = "delete app"}
        /\ request[c].app \in App
    BY HandlerFacts DEF FindDoomed, Doing, At
  <2>3. a \in App /\ (a # request[c].app => ~Is(apps[request[c].app]))
    BY <2>2, NamedAreRows DEF FoundAgain
  <2>4. [phase |-> "found", asked |-> request[c].asked, app |-> a,
         resolved |-> request[c].app] \in HandlerState
    BY <2>2, <2>3 DEF HandlerState
  <2> QED
    BY <2>1, <2>3, <2>4 DEF TypeOK
<1> QED
  BY <1>1, <1>2

(* What an update of an endpoint, and one of an application, writes.       *)
LEMMA UpdatedIsRow ==
  ASSUME TypeOK, NEW c \in Client, At(c, "read"),
         Scoped(request[c].asked.endpoint, request[c].app)
  PROVE  /\ endpoints[request[c].asked.endpoint] \in EndpointRow
         /\ Updated(endpoints[request[c].asked.endpoint], request[c]) \in EndpointRow
<1> DEFINE r == request[c].asked
           e == r.endpoint
<1>1. /\ r \in Requests /\ r.op = "update endpoint" /\ e \in Endpoint
      /\ request[c].types \in Filter \cup {Null} /\ request[c].rate \in Rate \cup {Null}
  BY HandlerFacts, RequestsFit DEF At
<1>2. endpoints[e] \in EndpointRow
  BY <1>1, IsRow DEF Scoped
<1>3. Coalesce(r.url, endpoints[e].url) \in Url
  BY <1>1, <1>2, RequestsFit DEF Coalesce, EndpointRow
<1>4. /\ SaidOrNull(r.types, request[c].types) \in Filter \cup {Null}
      /\ SaidOrNull(r.rate, request[c].rate) \in Rate \cup {Null}
  BY <1>1, RequestsFit DEF SaidOrNull
<1> QED
  BY <1>2, <1>3, <1>4 DEF EndpointRow, Updated

LEMMA RenamedIsRow ==
  ASSUME TypeOK, NEW c \in Client, Doing(c, "update app"), Is(apps[request[c].app])
  PROVE  [name |-> Coalesce(request[c].asked.name, apps[request[c].app].name),
          uid |-> Coalesce(request[c].asked.uid, apps[request[c].app].uid)] \in AppRow
BY HandlerFacts, RequestsFit, IsRow DEF AppRow, Coalesce, Doing, At

LEMMA StartTypes == Init => TypeOK
BY TablesFit DEF Init, TypeOK, HandlerState

LEMMA StepTypes == TypeOK /\ [Next]_vars => TypeOK'
<1> SUFFICES ASSUME TypeOK, [Next]_vars
             PROVE  TypeOK'
  OBVIOUS
<1> USE DEF table
<1>0. CASE UNCHANGED vars
  BY <1>0 DEF vars, TypeOK
<1> SUFFICES ASSUME NEW c \in Client, Handle(c)
             PROVE  TypeOK'
  BY <1>0 DEF Next
<1>1. CASE Ask(c)
  <2>1. request' \in [Client -> HandlerState]
    <3>1. PICK r \in Requests : request' = [request EXCEPT ![c] = [phase |-> "asked", asked |-> r]]
      BY <1>1 DEF Ask
    <3>2. [phase |-> "asked", asked |-> r] \in HandlerState
      BY DEF HandlerState
    <3> QED
      BY <3>1, <3>2 DEF TypeOK
  <2> QED
    BY <1>1, <2>1, RemembersNames DEF TypeOK, Ask
<1>2. CASE Resolve(c)
  <2>1. request[c].asked \in Requests
    BY <1>2, HandlerFacts DEF Resolve, At
  <2>2. request' \in [Client -> HandlerState]
    <3>1. CASE End(c)
      BY <3>1, Ends
    <3>2. CASE ~End(c)
      <4>1. PICK a \in App : request' = [request EXCEPT ![c] =
                [phase |-> "resolved", asked |-> request[c].asked, app |-> a]]
        BY <1>2, <3>2, NamedAreRows DEF Resolve
      <4>2. [phase |-> "resolved", asked |-> request[c].asked, app |-> a] \in HandlerState
        BY <2>1 DEF HandlerState
      <4> QED
        BY <4>1, <4>2 DEF TypeOK
    <3> QED
      BY <3>1, <3>2
  <2> QED
    BY <1>2, <2>2, RemembersNames DEF TypeOK, Resolve
<1>3. CASE HangUp(c)
  BY <1>3, Ends, RemembersNames DEF TypeOK, HangUp
<1>4. CASE CreateApp(c)
  <2> DEFINE r == request[c].asked
  <2>1. [name |-> r.name, uid |-> r.uid] \in AppRow
    BY <1>4, HandlerFacts, RequestsFit DEF CreateApp, At, AppRow
  <2>2. apps' \in [App -> AppRow \cup {Unused, Gone}]
    BY <1>4, <2>1 DEF CreateApp, TypeOK
  <2> QED
    BY <1>4, <2>2, Ends, RemembersNames DEF TypeOK, CreateApp
<1>5. CASE UpdateApp(c)
  <2>1. apps' \in [App -> AppRow \cup {Unused, Gone}]
    BY <1>5, RenamedIsRow DEF UpdateApp, TypeOK
  <2> QED
    BY <1>5, <2>1, Ends, RemembersNames DEF TypeOK, UpdateApp
<1>6. CASE DeleteApp(c)
  <2>1. apps' \in [App -> AppRow \cup {Unused, Gone}]
    BY <1>6 DEF DeleteApp, TypeOK
  <2>2. endpoints' \in [Endpoint -> EndpointRow \cup {Unused, Gone}]
    BY <1>6 DEF DeleteApp, TypeOK
  <2>3. messages' \in [Message -> MessageRow \cup {Unused, Gone}]
    BY <1>6 DEF DeleteApp, TypeOK
  <2>4. queued' \in [Message -> [Endpoint -> {0, 1}]]
    BY <1>6 DEF DeleteApp, TypeOK
  <2> QED
    BY <1>6, <2>1, <2>2, <2>3, <2>4, Ends, RemembersNames DEF TypeOK, DeleteApp
<1>7. CASE CreateEndpoint(c)
  <2> DEFINE r == request[c].asked
             a == request[c].app
  <2>1. a \in App /\ r \in Requests /\ r.op = "create endpoint"
    BY <1>7, HandlerFacts DEF CreateEndpoint, Doing, At
  <2>2. [app |-> a, url |-> r.url, types |-> r.types, rate |-> r.rate, on |-> TRUE] \in EndpointRow
    BY <2>1, RequestsFit DEF EndpointRow
  <2>3. endpoints' \in [Endpoint -> EndpointRow \cup {Unused, Gone}]
    BY <1>7, <2>2 DEF CreateEndpoint, TypeOK
  <2> QED
    BY <1>7, <2>3, Ends, RemembersNames DEF TypeOK, CreateEndpoint
<1>8. CASE UpdateRead(c)
  <2> DEFINE e == request[c].asked.endpoint
             new == [phase |-> "read", asked |-> request[c].asked, app |-> request[c].app,
                     types |-> endpoints[e].types, rate |-> endpoints[e].rate]
  <2>1. /\ request[c].asked \in Requests /\ request[c].asked.op = "update endpoint"
        /\ request[c].app \in App /\ e \in Endpoint
    BY <1>8, HandlerFacts, RequestsFit DEF UpdateRead, Doing, At
  <2>2. CASE Scoped(e, request[c].app)
    <3>1. endpoints[e] \in EndpointRow
      BY <2>1, <2>2, IsRow DEF Scoped
    <3>2. new \in HandlerState
      BY <2>1, <3>1 DEF HandlerState, EndpointRow
    <3>3. request' = [request EXCEPT ![c] = new]
      BY <1>8, <2>2 DEF UpdateRead
    <3> QED
      BY <1>8, <3>2, <3>3, RemembersNames DEF TypeOK, UpdateRead
  <2>3. CASE ~Scoped(e, request[c].app)
    BY <1>8, <2>3, Ends, RemembersNames DEF TypeOK, UpdateRead
  <2> QED
    BY <2>2, <2>3
<1>9. CASE UpdateWrite(c)
  <2>2. endpoints' \in [Endpoint -> EndpointRow \cup {Unused, Gone}]
    BY <1>9, UpdatedIsRow DEF UpdateWrite, TypeOK
  <2>3. crossed' \subseteq Client
    BY <1>9 DEF UpdateWrite, TypeOK
  <2> QED
    BY <1>9, <2>2, <2>3, Ends, RemembersNames DEF TypeOK, UpdateWrite
<1>10. CASE Switch(c)
  <2> DEFINE e == request[c].asked.endpoint
  <2>1. endpoints' \in [Endpoint -> EndpointRow \cup {Unused, Gone}]
    <3>1. e \in Endpoint
      BY <1>10, HandlerFacts, RequestsFit DEF Switch, Doing, At
    <3>2. Is(endpoints[e]) =>
            [endpoints[e] EXCEPT !.on = request[c].asked.op = "enable"] \in EndpointRow
      BY <3>1, IsRow DEF EndpointRow
    <3> QED
      BY <1>10, <3>1, <3>2 DEF Switch, TypeOK, Scoped
  <2> QED
    BY <1>10, <2>1, Ends, RemembersNames DEF TypeOK, Switch
<1>11. CASE DeleteEndpoint(c)
  <2>1. endpoints' \in [Endpoint -> EndpointRow \cup {Unused, Gone}]
    BY <1>11 DEF DeleteEndpoint, TypeOK
  <2>2. queued' \in [Message -> [Endpoint -> {0, 1}]]
    <3> DEFINE e == request[c].asked.endpoint
    <3>1. CASE queued' = [m \in Message |-> [queued[m] EXCEPT ![e] = 0]]
      BY <3>1 DEF TypeOK
    <3>2. CASE queued' = queued
      BY <3>2 DEF TypeOK
    <3> QED
      BY <1>11, <3>1, <3>2 DEF DeleteEndpoint
  <2> QED
    BY <1>11, <2>1, <2>2, Ends, RemembersNames DEF TypeOK, DeleteEndpoint
<1>12. CASE PostAgain(c)
  BY <1>12, Replies, RemembersNames DEF TypeOK, PostAgain, Stored
<1>13. CASE PostNew(c)
  <2> DEFINE r == request[c].asked
             a == request[c].app
  <2>1. a \in App /\ r \in Requests /\ r.op = "post"
    BY <1>13, HandlerFacts DEF PostNew, Doing, At
  <2>2. [app |-> a, type |-> r.type, key |-> r.key] \in MessageRow
    BY <2>1, RequestsFit DEF MessageRow
  <2>3. messages' \in [Message -> MessageRow \cup {Unused, Gone}]
    BY <1>13, <2>2 DEF PostNew, TypeOK
  <2>4. queued' \in [Message -> [Endpoint -> {0, 1}]]
    BY <1>13 DEF PostNew, TypeOK
  <2>5. request' \in [Client -> HandlerState]
    BY <1>13, Replies DEF PostNew
  <2> QED
    BY <1>13, <2>3, <2>4, <2>5, RemembersNames DEF TypeOK, PostNew
<1>14. CASE PostFails(c)
  BY <1>14, Ends, RemembersNames DEF TypeOK, PostFails
<1>15. CASE Answer(c)
  <2>1. /\ request[c].app \in App /\ request[c].message \in Message
        /\ request[c].asked.key \in Key \cup {Null}
    BY <1>15, HandlerFacts, RequestsFit DEF Answer, At
  <2>2. answers' \subseteq [app : App, key : Key, message : Message]
    BY <1>15, <2>1 DEF Answer, TypeOK
  <2> QED
    BY <1>15, <2>2, Ends, RemembersNames DEF TypeOK, Answer
<1>16. CASE FindDoomed(c)
  <2>1. request' \in [Client -> HandlerState]
    BY <1>16, FindsOrEnds
  <2> QED
    BY <1>16, <2>1, RemembersNames DEF TypeOK, FindDoomed
<1> QED
  BY <1>1, <1>2, <1>3, <1>4, <1>5, <1>6, <1>7, <1>8, <1>9, <1>10, <1>11, <1>12, <1>13, <1>14,
     <1>15, <1>16 DEF Handle

(* Every table, every handler's memory and every answer keeps its type.    *)
THEOREM ApiTypes == Spec => []TypeOK
BY StartTypes, StepTypes, PTL DEF Spec

-----------------------------------------------------------------------------
(* What a step leaves alone *)

(* A handler that moves leaves the others where they are.                  *)
LEMMA OthersWait ==
  ASSUME TypeOK, NEW c \in Client, Handle(c)
  PROVE  /\ Remember
         /\ \A d \in Client \ {c} : request'[d] = request[d]
<1> USE DEF TypeOK, End, Reply
<1>1. CASE Ask(c) \/ Resolve(c) \/ HangUp(c)
  BY <1>1 DEF Ask, Resolve, HangUp
<1>2. CASE CreateApp(c) \/ UpdateApp(c) \/ DeleteApp(c)
  BY <1>2 DEF CreateApp, UpdateApp, DeleteApp
<1>3. CASE CreateEndpoint(c) \/ UpdateWrite(c) \/ Switch(c) \/ DeleteEndpoint(c)
  BY <1>3 DEF CreateEndpoint, UpdateWrite, Switch, DeleteEndpoint
<1>4. CASE UpdateRead(c)
  BY <1>4 DEF UpdateRead
<1>5. CASE PostAgain(c) \/ PostNew(c) \/ PostFails(c) \/ Answer(c)
  BY <1>5 DEF PostAgain, PostNew, PostFails, Answer
<1>6. CASE FindDoomed(c)
  BY <1>6, FindsOrEnds DEF FindDoomed
<1> QED
  BY <1>1, <1>2, <1>3, <1>4, <1>5, <1>6 DEF Handle

(* The other handlers end their request.                                   *)
LEMMA MostEnd ==
  ASSUME NEW c \in Client, Handle(c)
  PROVE  \/ End(c) \/ Ask(c) \/ Resolve(c) \/ FindDoomed(c)
         \/ UpdateRead(c) \/ PostAgain(c) \/ PostNew(c)
<1>1. HangUp(c) \/ CreateApp(c) \/ UpdateApp(c) \/ DeleteApp(c) => End(c)
  BY DEF HangUp, CreateApp, UpdateApp, DeleteApp
<1>2. CreateEndpoint(c) \/ UpdateWrite(c) \/ DeleteEndpoint(c) => End(c)
  BY DEF CreateEndpoint, UpdateWrite, DeleteEndpoint
<1>3. Switch(c) \/ PostFails(c) \/ Answer(c) => End(c)
  BY DEF Switch, PostFails, Answer
<1> QED
  BY <1>1, <1>2, <1>3 DEF Handle

(* What a URL has named is not forgotten while the request is open.        *)
LEMMA NothingForgotten ==
  ASSUME Remember, NEW d \in Client, request'[d].phase # "none"
  PROVE  meant[d] \subseteq meant'[d]
BY DEF Remember

(* An endpoint that exists keeps its application until it goes for good,   *)
(* and keeps its filter and limit until an update of it is written.        *)
LEMMA EndpointsEvolve ==
  ASSUME TypeOK, NEW c \in Client, Handle(c), NEW e \in Endpoint, endpoints[e] # Unused
  PROVE  /\ endpoints'[e] # Unused
         /\ Is(endpoints'[e]) =>
              /\ Is(endpoints[e]) /\ endpoints'[e].app = endpoints[e].app
              /\ ~(At(c, "read") /\ request[c].asked.endpoint = e) =>
                   endpoints'[e].types = endpoints[e].types /\ endpoints'[e].rate = endpoints[e].rate
<1> DEFINE f == request[c].asked.endpoint
<1>1. CASE endpoints'[e] = endpoints[e]
  BY <1>1
<1>2. CASE endpoints'[e] = Gone
  BY <1>2, TablesFit DEF Is
<1>3. CASE UpdateWrite(c)
  <2>1. CASE f = e /\ Scoped(e, request[c].app)
    <3>1. /\ endpoints[e] \in EndpointRow /\ Is(endpoints[e])
          /\ Updated(endpoints[e], request[c]) \in EndpointRow
      BY <1>3, <2>1, UpdatedIsRow DEF UpdateWrite, Scoped
    <3>2. endpoints'[e] = Updated(endpoints[e], request[c])
      BY <1>3, <2>1 DEF UpdateWrite, TypeOK
    <3>3. endpoints'[e].app = endpoints[e].app
      BY <3>1, <3>2 DEF Updated, EndpointRow
    <3>4. Is(endpoints'[e])
      BY <3>1, <3>2, RowsAreRows
    <3> QED
      BY <1>3, <2>1, <3>1, <3>3, <3>4 DEF UpdateWrite, Is
  <2>2. CASE ~(f = e /\ Scoped(e, request[c].app))
    BY <1>1, <1>3, <2>2 DEF UpdateWrite, TypeOK
  <2> QED
    BY <2>1, <2>2
<1>4. CASE Switch(c)
  <2>1. CASE f = e /\ Scoped(e, request[c].app)
    <3>1. endpoints[e] \in EndpointRow /\ Is(endpoints[e])
      BY <2>1, IsRow DEF Scoped
    <3>2. endpoints'[e] = [endpoints[e] EXCEPT !.on = request[c].asked.op = "enable"]
      BY <1>4, <2>1 DEF Switch, TypeOK
    <3>3. endpoints'[e] \in EndpointRow
      BY <3>1, <3>2 DEF EndpointRow
    <3> QED
      BY <3>1, <3>2, <3>3, RowsAreRows DEF EndpointRow, Is
  <2>2. CASE ~(f = e /\ Scoped(e, request[c].app))
    BY <1>1, <1>4, <2>2 DEF Switch, TypeOK
  <2> QED
    BY <2>1, <2>2
<1>5. CASE DeleteApp(c) \/ DeleteEndpoint(c) \/ CreateEndpoint(c)
  BY <1>1, <1>2, <1>5 DEF DeleteApp, DeleteEndpoint, CreateEndpoint, TypeOK
<1>6. CASE UNCHANGED endpoints
  BY <1>1, <1>6
<1> QED
  BY <1>3, <1>4, <1>5, <1>6 DEF Handle, Ask, Resolve, HangUp, FindDoomed, CreateApp, UpdateApp,
     UpdateRead, PostAgain, PostNew, PostFails, Answer, table

(* An id of an application that was given stays given, and one that was    *)
(* deleted stays so; a message stays as it is until its application goes.  *)
LEMMA TablesEvolve ==
  ASSUME TypeOK, NEW c \in Client, Handle(c)
  PROVE  /\ \A a \in App : apps[a] # Unused =>
              apps'[a] # Unused /\ (Is(apps'[a]) => Is(apps[a]))
         /\ \A m \in Message : Is(messages[m]) =>
              \/ messages'[m] = messages[m]
              \/ ~Is(messages'[m]) /\ ~Is(apps'[messages[m].app])
<1>1. CASE UNCHANGED <<apps, messages>>
  BY <1>1
<1>2. CASE CreateApp(c)
  BY <1>2 DEF CreateApp, TypeOK
<1>3. CASE UpdateApp(c)
  <2> DEFINE a == request[c].app
             row == [name |-> Coalesce(request[c].asked.name, apps[a].name),
                     uid |-> Coalesce(request[c].asked.uid, apps[a].uid)]
  <2>1. apps' = apps \/ (Is(apps[a]) /\ apps' = [apps EXCEPT ![a] = row])
    BY <1>3 DEF UpdateApp
  <2>2. Is(apps[a]) => Is(row)
    BY <1>3, RenamedIsRow, RowsAreRows DEF UpdateApp
  <2>3. \A b \in App : apps'[b] = apps[b] \/ (Is(apps'[b]) /\ Is(apps[b]))
    BY <2>1, <2>2 DEF TypeOK
  <2> QED
    BY <1>3, <2>3 DEF UpdateApp, Is
<1>4. CASE DeleteApp(c)
  BY <1>4, TablesFit DEF DeleteApp, TypeOK, Is, MessageRow
<1>5. CASE PostNew(c)
  BY <1>5 DEF PostNew, TypeOK, Is
<1> QED
  BY <1>1, <1>2, <1>3, <1>4, <1>5 DEF Handle, Ask, Resolve, HangUp, FindDoomed, CreateEndpoint,
     UpdateRead, UpdateWrite, Switch, DeleteEndpoint, PostAgain, PostFails, Answer, table

LEMMA GoneStaysGone ==
  ASSUME TypeOK, TypeOK', NEW c \in Client, Handle(c), NEW a \in App, apps[a] = Gone
  PROVE  apps'[a] = Gone
BY TablesEvolve, TablesFit DEF TypeOK, Is

-----------------------------------------------------------------------------
(* A request acts on what it meant *)

(* An application that the URL named at some moment since the request was  *)
(* made, and that for a delete bore the name repeated.                     *)
Vouched(c, a) ==
  \E x \in meant[c] :
    /\ x.app = a
    /\ request[c].asked.op = "delete app" => request[c].asked.confirm = x.name

(* What a handler has resolved is such an application, and what a delete   *)
(* has found is that one, unless that one is gone.                         *)
Meant(c) ==
  /\ request[c].phase \in {"resolved", "read"} =>
       apps[request[c].app] # Unused /\ Vouched(c, request[c].app)
  /\ At(c, "found") =>
       /\ Vouched(c, request[c].resolved)
       /\ request[c].app = request[c].resolved \/ apps[request[c].resolved] = Gone

AllMeant == TypeOK /\ \A c \in Client : Meant(c)

LEMMA StepMeant == AllMeant /\ [Next]_vars => AllMeant'
<1> SUFFICES ASSUME AllMeant, [Next]_vars
             PROVE  AllMeant'
  OBVIOUS
<1>1. TypeOK'
  BY StepTypes DEF AllMeant
<1>2. CASE UNCHANGED vars
  BY <1>1, <1>2 DEF AllMeant, Meant, Vouched, At, vars, table
<1>3. ASSUME NEW c \in Client, Handle(c), NEW d \in Client
      PROVE  Meant(d)'
  <2> USE <1>3 DEF AllMeant
  <2>1. CASE request'[d].phase \notin {"resolved", "found", "read"}
    BY <2>1 DEF Meant, At
  <2>2. ASSUME NEW a \in App, Vouched(d, a), request'[d].phase # "none",
               request'[d].asked = request[d].asked
        PROVE  Vouched(d, a)'
    BY <2>2, OthersWait, NothingForgotten DEF Vouched
  <2>3. CASE d # c
    <3>1. request'[d] = request[d]
      BY <2>3, OthersWait
    <3>2. CASE request[d].phase \in {"resolved", "read"}
      BY <2>2, <3>1, <3>2, HandlerFacts, TablesEvolve DEF Meant, At
    <3>3. CASE At(d, "found")
      <4> DEFINE b == request[d].resolved
      <4>1. b \in App /\ Vouched(d, b) /\ (request[d].app = b \/ apps[b] = Gone)
        BY <3>3, HandlerFacts DEF Meant
      <4>2. Vouched(d, b)'
        BY <2>2, <3>1, <3>3, <4>1 DEF At
      <4>3. apps[b] = Gone => apps'[b] = Gone
        BY <1>1, <4>1, GoneStaysGone
      <4> QED
        BY <3>1, <3>3, <4>1, <4>2, <4>3 DEF Meant, At
    <3> QED
      BY <2>1, <3>1, <3>2, <3>3 DEF At
  <2>4. CASE Resolve(c) /\ d = c
    <3>1. CASE End(c)
      BY <2>1, <2>4, <3>1, Ends DEF NoRequest
    <3>2. CASE ~End(c)
      <4>1. PICK a \in Named(apps, request[c].asked.ref) :
              /\ a \in App /\ Is(apps[a])
              /\ Confirmed(request[c].asked, a)
              /\ request' = [request EXCEPT ![c] =
                     [phase |-> "resolved", asked |-> request[c].asked, app |-> a]]
        BY <2>4, <3>2, NamedAreRows DEF Resolve
      <4>2. /\ request'[c] = [phase |-> "resolved", asked |-> request[c].asked, app |-> a]
            /\ apps' = apps
        BY <2>4, <4>1 DEF Resolve, table, TypeOK
      <4>3. [app |-> a, name |-> apps[a].name] \in meant'[c]
        BY <4>1, <4>2, OthersWait DEF Remember
      <4>4. /\ request'[c].app = a /\ request'[c].asked = request[c].asked
            /\ request'[c].phase = "resolved" /\ apps'[a] # Unused
        BY <4>1, <4>2 DEF Is
      <4>5. request[c].asked.op = "delete app" => request[c].asked.confirm = apps[a].name
        BY <4>1 DEF Confirmed
      <4> QED
        BY <2>4, <4>3, <4>4, <4>5 DEF Meant, Vouched, At
    <3> QED
      BY <3>1, <3>2
  <2>5. CASE UpdateRead(c) /\ d = c
    <3>1. CASE End(c)
      BY <2>1, <2>5, <3>1, Ends DEF NoRequest
    <3>2. CASE ~End(c)
      <4> DEFINE e == request[c].asked.endpoint
                 new == [phase |-> "read", asked |-> request[c].asked, app |-> request[c].app,
                         types |-> endpoints[e].types, rate |-> endpoints[e].rate]
      <4>0. request' = [request EXCEPT ![c] = new] /\ request[c].phase = "resolved"
        BY <2>5, <3>2 DEF UpdateRead, Doing, At
      <4>1. /\ request'[c].phase = "read" /\ request'[c].app = request[c].app
            /\ request'[c].asked = request[c].asked
            /\ request[c].phase = "resolved"
        BY <4>0 DEF TypeOK
      <4>2. apps' = apps /\ request[c].app \in App
        BY <2>5, <4>1, HandlerFacts DEF UpdateRead, table
      <4> QED
        BY <2>2, <2>5, <4>1, <4>2 DEF Meant, At
    <3> QED
      BY <3>1, <3>2
  <2>6. CASE Ask(c) /\ d = c
    BY <2>1, <2>6 DEF Ask, TypeOK
  <2>7. CASE (PostAgain(c) \/ PostNew(c)) /\ d = c
    BY <2>1, <2>7 DEF PostAgain, PostNew, Reply, TypeOK
  <2>8. CASE End(c) /\ d = c
    BY <2>1, <2>8, Ends DEF NoRequest
  <2>9. CASE FindDoomed(c) /\ d = c
    <3>1. CASE request'[c] = NoRequest
      BY <2>1, <2>9, <3>1 DEF NoRequest
    <3>2. CASE request'[c] # NoRequest
      <4> DEFINE a == request[c].app
      <4>1. /\ request'[c].phase = "found" /\ request'[c].asked = request[c].asked
            /\ request'[c].resolved = a
            /\ request'[c].app # a => ~Is(apps[a])
        BY <2>9, <3>2, FindsOrEnds
      <4>2. /\ request[c].phase = "resolved" /\ a \in App /\ apps' = apps
            /\ apps[a] # Unused /\ Vouched(c, a)
        BY <2>9, HandlerFacts DEF FindDoomed, Doing, At, Meant, table
      <4> QED
        BY <2>2, <2>9, <4>1, <4>2 DEF Meant, At, Is
    <3> QED
      BY <3>1, <3>2
  <2> QED
    BY <2>3, <2>4, <2>5, <2>6, <2>7, <2>8, <2>9, MostEnd
<1> QED
  BY <1>1, <1>2, <1>3 DEF AllMeant, Next

(* A handler changes the rows of the application it has resolved, no other. *)
LEMMA OthersKeepTheirRows ==
  ASSUME TypeOK, NEW c \in Client, Handle(c), NEW a \in App, Is(apps[a]),
         ~(request[c].phase \in {"resolved", "found", "read"} /\ a = request[c].app)
  PROVE  RowsOf(a)' = RowsOf(a)
<1> DEFINE OwnE(e) == Is(endpoints[e]) /\ endpoints[e].app = a
           OwnM(m) == Is(messages[m]) /\ messages[m].app = a
<1> USE DEF TypeOK
<1>1. CASE UNCHANGED table
  BY <1>1 DEF table, RowsOf
<1>2. CASE CreateApp(c)
  BY <1>2 DEF CreateApp, RowsOf, Is
<1>3. CASE UpdateApp(c)
  <2>1. apps'[a] = apps[a]
    BY <1>3 DEF UpdateApp, Doing, At
  <2> QED
    BY <1>3, <2>1 DEF UpdateApp, RowsOf
<1>4. CASE DeleteApp(c)
  <2>1. a # request[c].app
    BY <1>4 DEF DeleteApp, At
  <2>2. apps'[a] = apps[a]
    BY <1>4, <2>1 DEF DeleteApp
  <2>3. \A e \in Endpoint : endpoints'[e] = endpoints[e] \/ ~(OwnE(e) \/ OwnE(e)')
    BY <1>4, <2>1 DEF DeleteApp, Is
  <2>4. \A m \in Message : messages'[m] = messages[m] \/ ~(OwnM(m) \/ OwnM(m)')
    BY <1>4, <2>1 DEF DeleteApp, Is
  <2> QED
    BY <2>2, <2>3, <2>4 DEF RowsOf
<1>5. CASE CreateEndpoint(c) \/ UpdateWrite(c) \/ Switch(c) \/ DeleteEndpoint(c)
  <2>1. request[c].phase \in {"resolved", "read"} /\ apps' = apps /\ messages' = messages
    BY <1>5 DEF CreateEndpoint, UpdateWrite, Switch, DeleteEndpoint, Doing, At
  <2>2. CASE CreateEndpoint(c)
    <3>1. \A e \in Endpoint : endpoints'[e] = endpoints[e] \/ ~(OwnE(e) \/ OwnE(e)')
      <4> SUFFICES ASSUME NEW e \in Endpoint, endpoints'[e] # endpoints[e]
                   PROVE  ~OwnE(e) /\ ~OwnE(e)'
        OBVIOUS
      <4> DEFINE r == request[c].asked
                 new == [app |-> request[c].app, url |-> r.url, types |-> r.types,
                         rate |-> r.rate, on |-> TRUE]
      <4>1. endpoints[e] = Unused /\ endpoints'[e] = new
        BY <2>2 DEF CreateEndpoint
      <4>2. new.app # a
        BY <2>1
      <4> QED
        BY <4>1, <4>2 DEF Is
    <3> QED
      BY <2>1, <3>1 DEF RowsOf
  <2>3. CASE UpdateWrite(c)
    <3>1. \A e \in Endpoint : endpoints'[e] = endpoints[e] \/ ~(OwnE(e) \/ OwnE(e)')
      BY <2>1, <2>3, UpdatedIsRow DEF UpdateWrite, Scoped, Updated, EndpointRow
    <3> QED
      BY <2>1, <3>1 DEF RowsOf
  <2>4. CASE Switch(c)
    <3>1. \A e \in Endpoint : endpoints'[e] = endpoints[e] \/ ~(OwnE(e) \/ OwnE(e)')
      <4> SUFFICES ASSUME NEW e \in Endpoint, endpoints'[e] # endpoints[e]
                   PROVE  ~OwnE(e) /\ ~OwnE(e)'
        OBVIOUS
      <4>1. Scoped(e, request[c].app)
        BY <2>4 DEF Switch
      <4> QED
        BY <2>1, <4>1, EndpointsEvolve, TablesFit DEF Scoped, Is
    <3> QED
      BY <2>1, <3>1 DEF RowsOf
  <2>5. CASE DeleteEndpoint(c)
    <3>1. \A e \in Endpoint : endpoints'[e] = endpoints[e] \/ ~(OwnE(e) \/ OwnE(e)')
      BY <2>1, <2>5 DEF DeleteEndpoint, Scoped, Is
    <3> QED
      BY <2>1, <3>1 DEF RowsOf
  <2> QED
    BY <1>5, <2>2, <2>3, <2>4, <2>5
<1>6. CASE PostNew(c)
  <2>1. /\ request[c].phase \in {"resolved", "read"}
        /\ apps' = apps /\ endpoints' = endpoints
    BY <1>6 DEF PostNew, Doing, At
  <2>2. \A m \in Message : messages'[m] = messages[m] \/ ~(OwnM(m) \/ OwnM(m)')
    BY <1>6, <2>1 DEF PostNew, Is
  <2> QED
    BY <2>1, <2>2 DEF RowsOf
<1> QED
  BY <1>1, <1>2, <1>3, <1>4, <1>5, <1>6 DEF Handle, Ask, Resolve, HangUp, FindDoomed,
     UpdateRead, PostAgain, PostFails, Answer

(* A step that changes an application's rows ends a request, or sends its  *)
(* answer off; and only a delete takes an application away.                *)
LEMMA ChangesMove ==
  ASSUME TypeOK, NEW c \in Client, Handle(c), NEW a \in App, Is(apps[a]), RowsOf(a)' # RowsOf(a)
  PROVE  /\ request'[c] # request[c]
         /\ apps'[a] = Gone => At(c, "found")
<1>1. ~UNCHANGED table
  BY DEF table, RowsOf
<1>2. request[c].phase \in {"resolved", "found", "read"}
  BY OthersKeepTheirRows
<1>3. request'[c].phase \in {"none", "done"}
  <2>1. CASE PostNew(c)
    BY <2>1 DEF PostNew, Reply, TypeOK
  <2>2. CASE End(c)
    BY <2>2, Ends DEF NoRequest
  <2> QED
    BY <1>1, <2>1, <2>2 DEF Handle, Ask, Resolve, HangUp, FindDoomed, CreateApp, UpdateApp,
       DeleteApp, CreateEndpoint, UpdateRead, UpdateWrite, Switch, DeleteEndpoint, PostAgain,
       PostFails, Answer
<1>4. apps'[a] = Gone => DeleteApp(c)
  <2>1. CASE UpdateApp(c)
    <3>1. apps'[a] \in AppRow \cup {apps[a]}
      BY <2>1, RenamedIsRow DEF UpdateApp, TypeOK
    <3> QED
      BY <3>1, RowsAreRows DEF Is
  <2>2. CASE CreateApp(c)
    BY <1>2, <2>2 DEF CreateApp, At
  <2> QED
    BY <2>1, <2>2 DEF Handle, Ask, Resolve, HangUp, FindDoomed, CreateEndpoint, UpdateRead,
       UpdateWrite, Switch, DeleteEndpoint, PostAgain, PostNew, PostFails, Answer, table, Is
<1> QED
  BY <1>2, <1>3, <1>4 DEF DeleteApp

(* What a request changes belongs to an application its URL named while it *)
(* was open, and what it deletes bore the name that was repeated: however   *)
(* many handlers there are between whose calls uids move and names change,  *)
(* and whichever ids the uids spell.  Where a delete destroys another one,  *)
(* the one it was confirmed for had been deleted before its second lookup.  *)
THEOREM ActsAsMeant == Spec => ActsOnWhatWasMeant
<1> DEFINE Act == \A a \in App : Is(apps[a]) /\ RowsOf(a)' # RowsOf(a) =>
                    \E c \in Client : \E x \in meant[c] :
                      /\ request'[c] # request[c]
                      /\ x.app = a \/ Misled(c, a, x.app)
                      /\ apps'[a] = Gone => request[c].asked.confirm = x.name
<1>1. Init => AllMeant
  BY StartTypes DEF AllMeant, Meant, Init, NoRequest, At
<1>2. ASSUME AllMeant, [Next]_vars
      PROVE  Act
  <2>1. CASE UNCHANGED vars
    BY <2>1 DEF vars, table, RowsOf
  <2>2. ASSUME NEW c \in Client, Handle(c), NEW a \in App, Is(apps[a]), RowsOf(a)' # RowsOf(a)
        PROVE  \E x \in meant[c] :
                 /\ request'[c] # request[c]
                 /\ x.app = a \/ Misled(c, a, x.app)
                 /\ apps'[a] = Gone => request[c].asked.confirm = x.name
    <3>1. request[c].phase \in {"resolved", "found", "read"} /\ a = request[c].app
      BY <1>2, <2>2, OthersKeepTheirRows DEF AllMeant
    <3>2. request'[c] # request[c] /\ (apps'[a] = Gone => At(c, "found"))
      BY <1>2, <2>2, ChangesMove DEF AllMeant
    <3>3. CASE request[c].phase \in {"resolved", "read"}
      BY <1>2, <3>1, <3>2, <3>3 DEF AllMeant, Meant, Vouched, At
    <3>4. CASE At(c, "found")
      <4>1. PICK x \in meant[c] :
              /\ x.app = request[c].resolved
              /\ request[c].asked.op = "delete app" => request[c].asked.confirm = x.name
        BY <1>2, <3>4 DEF AllMeant, Meant, Vouched
      <4>2. request[c].asked.op = "delete app"
        BY <1>2, <3>4, HandlerFacts DEF AllMeant
      <4>3. a = request[c].resolved \/ apps[request[c].resolved] = Gone
        BY <1>2, <3>1, <3>4 DEF AllMeant, Meant
      <4> QED
        BY <3>1, <3>2, <3>4, <4>1, <4>2, <4>3 DEF Misled
    <3> QED
      BY <3>1, <3>3, <3>4 DEF At
  <2> QED
    BY <1>2, <2>1, <2>2 DEF Next
<1>3. Spec => [][Act]_vars
  BY <1>1, <1>2, StepMeant, PTL DEF Spec
<1> QED
  BY <1>3 DEF ActsOnWhatWasMeant

-----------------------------------------------------------------------------
(* An update leaves the rest as it finds it *)

(* What an update has read is what is stored, but for a filter and a limit *)
(* that another update has written since; and the endpoint it read, while  *)
(* it exists, is still the same application's.                             *)
ReadIsCurrent(c) ==
  LET e == request[c].asked.endpoint
  IN  At(c, "read") =>
        /\ endpoints[e] # Unused
        /\ Is(endpoints[e]) =>
             /\ endpoints[e].app = request[c].app
             /\ c \notin crossed => /\ request[c].types = endpoints[e].types
                                   /\ request[c].rate = endpoints[e].rate

AllCurrent == TypeOK /\ \A c \in Client : ReadIsCurrent(c)

LEMMA StepCurrent == AllCurrent /\ [Next]_vars => AllCurrent'
<1> SUFFICES ASSUME AllCurrent, [Next]_vars
             PROVE  AllCurrent'
  OBVIOUS
<1>1. TypeOK'
  BY StepTypes DEF AllCurrent
<1>2. CASE UNCHANGED vars
  BY <1>1, <1>2 DEF AllCurrent, ReadIsCurrent, At, vars, table, Is
<1>3. ASSUME NEW c \in Client, Handle(c), NEW d \in Client, request'[d].phase = "read"
      PROVE  ReadIsCurrent(d)'
  <2> USE <1>3 DEF AllCurrent
  <2>1. CASE d = c
    <3>1. UpdateRead(c) /\ ~End(c)
      <4>1. CASE End(c)
        BY <2>1, <4>1, Ends DEF NoRequest
      <4>2. CASE Ask(c)
        BY <2>1, <4>2 DEF Ask, TypeOK
      <4>3. CASE Resolve(c) /\ ~End(c)
        <5>1. PICK a : request' = [request EXCEPT ![c] =
                  [phase |-> "resolved", asked |-> request[c].asked, app |-> a]]
          BY <4>3 DEF Resolve
        <5>2. request'[c].phase = "resolved"
          BY <5>1 DEF TypeOK
        <5> QED
          BY <2>1, <5>2
      <4>4. CASE PostAgain(c) \/ PostNew(c)
        BY <2>1, <4>4 DEF PostAgain, PostNew, Reply, TypeOK
      <4>5. CASE FindDoomed(c)
        BY <2>1, <4>5, FindsOrEnds DEF NoRequest
      <4> QED
        BY <4>1, <4>2, <4>3, <4>4, <4>5, MostEnd
    <3> DEFINE e == request[c].asked.endpoint
               new == [phase |-> "read", asked |-> request[c].asked, app |-> request[c].app,
                       types |-> endpoints[e].types, rate |-> endpoints[e].rate]
    <3>2. /\ Scoped(e, request[c].app) /\ request' = [request EXCEPT ![c] = new]
          /\ endpoints' = endpoints
      BY <3>1 DEF UpdateRead, table
    <3>3. request'[c] = new
      BY <3>2 DEF TypeOK
    <3>4. Is(endpoints[e]) /\ endpoints[e].app = request[c].app
      BY <3>2 DEF Scoped
    <3> QED
      BY <2>1, <3>2, <3>3, <3>4 DEF ReadIsCurrent, Is
  <2>2. CASE d # c
    <3> DEFINE e == request[d].asked.endpoint
    <3>1. request'[d] = request[d] /\ At(d, "read")
      BY <2>2, OthersWait DEF At
    <3>2. /\ endpoints[e] # Unused
          /\ Is(endpoints[e]) =>
               /\ endpoints[e].app = request[d].app
               /\ d \notin crossed => /\ request[d].types = endpoints[e].types
                                     /\ request[d].rate = endpoints[e].rate
      BY <3>1 DEF ReadIsCurrent
    <3>3. e \in Endpoint
      BY <3>1, HandlerFacts, RequestsFit DEF At
    <3>4. /\ endpoints'[e] # Unused
          /\ Is(endpoints'[e]) =>
               /\ Is(endpoints[e]) /\ endpoints'[e].app = endpoints[e].app
               /\ ~(At(c, "read") /\ request[c].asked.endpoint = e) =>
                    endpoints'[e].types = endpoints[e].types /\ endpoints'[e].rate = endpoints[e].rate
      BY <3>2, <3>3, EndpointsEvolve
    <3>5. d \notin crossed' => d \notin crossed /\ ~(At(c, "read") /\ request[c].asked.endpoint = e)
      <4>1. CASE UpdateWrite(c)
        BY <2>2, <3>1, <4>1 DEF UpdateWrite
      <4>2. CASE ~UpdateWrite(c)
        <5>1. crossed' = crossed
          BY <4>2 DEF Handle, Ask, Resolve, HangUp, FindDoomed, CreateApp, UpdateApp, DeleteApp,
             CreateEndpoint, UpdateRead, Switch, DeleteEndpoint, PostAgain, PostNew, PostFails,
             Answer
        <5>2. CASE ~At(c, "read")
          BY <5>1, <5>2
        <5>3. CASE At(c, "read")
          BY <4>2, <5>3 DEF Handle, Ask, Resolve, HangUp, FindDoomed, CreateApp, UpdateApp,
             DeleteApp, CreateEndpoint, UpdateRead, Switch, DeleteEndpoint, PostAgain, PostNew,
             PostFails, Answer, At, Doing
        <5> QED
          BY <5>2, <5>3
      <4> QED
        BY <4>1, <4>2
    <3> QED
      BY <3>1, <3>2, <3>4, <3>5 DEF ReadIsCurrent, Is
  <2> QED
    BY <2>1, <2>2
<1>4. ASSUME NEW c \in Client, Handle(c), NEW d \in Client
      PROVE  ReadIsCurrent(d)'
  BY <1>3, <1>4 DEF ReadIsCurrent, At
<1> QED
  BY <1>1, <1>2, <1>4 DEF AllCurrent, Next

(* An update changes what its body mentions and leaves the rest, except    *)
(* that a filter or a limit which another update has set between its read   *)
(* and its write may be undone: for any number of updates at once.          *)
THEOREM UpdatesKeepTheRest == Spec => UpdateKeepsTheRest
<1> DEFINE Act == \A c \in Client :
                    LET r == request[c].asked
                        kept == IF c \in crossed THEN {"url"} ELSE {"url", "types", "rate"}
                    IN  At(c, "read") /\ At(c, "none")' /\ Is(endpoints[r.endpoint]) =>
                          \A f \in kept :
                            endpoints'[r.endpoint][f] =
                              IF Mentions(r, f) THEN r[f] ELSE endpoints[r.endpoint][f]
<1>1. Init => AllCurrent
  BY StartTypes DEF AllCurrent, ReadIsCurrent, Init, NoRequest, At
<1>2. ASSUME AllCurrent, [Next]_vars, NEW c \in Client, At(c, "read"), At(c, "none")',
             Is(endpoints[request[c].asked.endpoint])
      PROVE  LET r == request[c].asked
                 kept == IF c \in crossed THEN {"url"} ELSE {"url", "types", "rate"}
             IN  \A f \in kept :
                   endpoints'[r.endpoint][f] =
                     IF Mentions(r, f) THEN r[f] ELSE endpoints[r.endpoint][f]
  <2> DEFINE r == request[c].asked
             e == r.endpoint
             row == endpoints[e]
  <2>1. UpdateWrite(c)
    <3>1. PICK d \in Client : Handle(d)
      BY <1>2 DEF Next, vars, At
    <3>2. d = c
      BY <1>2, <3>1, OthersWait DEF AllCurrent, At
    <3> QED
      BY <1>2, <3>1, <3>2 DEF Handle, Ask, Resolve, HangUp, FindDoomed, CreateApp, UpdateApp,
         DeleteApp, CreateEndpoint, UpdateRead, Switch, DeleteEndpoint, PostAgain, PostNew,
         PostFails, Answer, At, Doing
  <2>2. row.app = request[c].app /\ Scoped(e, request[c].app)
    BY <1>2 DEF AllCurrent, ReadIsCurrent, Scoped
  <2>3. row \in EndpointRow /\ e \in Endpoint
    BY <1>2, <2>2, UpdatedIsRow, HandlerFacts, RequestsFit DEF AllCurrent, At
  <2>4. endpoints'[e] = Updated(row, request[c])
    BY <1>2, <2>1, <2>2, <2>3 DEF UpdateWrite, AllCurrent, TypeOK
  <2>5. /\ endpoints'[e].url = Coalesce(r.url, row.url)
        /\ endpoints'[e].types = SaidOrNull(r.types, request[c].types)
        /\ endpoints'[e].rate = SaidOrNull(r.rate, request[c].rate)
    BY <2>3, <2>4 DEF Updated, EndpointRow
  <2>6. c \notin crossed => request[c].types = row.types /\ request[c].rate = row.rate
    BY <1>2 DEF AllCurrent, ReadIsCurrent
  <2> QED
    BY <2>5, <2>6 DEF Coalesce, SaidOrNull, Mentions
<1>3. ASSUME AllCurrent, [Next]_vars
      PROVE  Act
  BY <1>2, <1>3
<1>4. Spec => [][Act]_vars
  BY <1>1, <1>3, StepCurrent, PTL DEF Spec
<1> QED
  BY <1>4 DEF UpdateKeepsTheRest

-----------------------------------------------------------------------------
(* A key names one message *)

(* The answer m for key k of application a has been given, or is about to. *)
Given(a, k, m) ==
  \/ [app |-> a, key |-> k, message |-> m] \in answers
  \/ \E c \in Client : /\ At(c, "done") /\ k # Null
                       /\ request[c].app = a /\ request[c].asked.key = k
                       /\ request[c].message = m

(* Message m is stored under key k of application a.                       *)
IsStored(a, k, m) == Is(messages[m]) /\ messages[m].app = a /\ messages[m].key = k

(* What was answered is stored while the application lives; ids of         *)
(* applications are not given twice; a key is stored once, with the        *)
(* application; and queues join rows of one application.                   *)
KeysKept ==
  /\ TypeOK
  /\ \A m \in Message : Is(messages[m]) => Is(apps[messages[m].app])
  /\ \A a \in App, k \in Key, m \in Message, n \in Message :
       k # Null /\ IsStored(a, k, m) /\ IsStored(a, k, n) => m = n
  /\ \A a \in App, k \in Key, m \in Message : Given(a, k, m) =>
       k # Null /\ apps[a] # Unused /\ (Is(apps[a]) => IsStored(a, k, m))
  /\ \A a \in App, k \in Key, m \in Message, n \in Message :
       Given(a, k, m) /\ Given(a, k, n) => m = n
  /\ \A m \in Message, e \in Endpoint : queued[m][e] > 0 =>
       Is(messages[m]) /\ Is(endpoints[e]) /\ messages[m].app = endpoints[e].app

(* A post under key k of application a, which answers with m.              *)
PostsAgain(c, a, k, m) ==
  PostAgain(c) /\ k # Null /\ IsStored(a, k, m)
PostsNew(c, a, k, m) ==
  /\ PostNew(c) /\ Is(apps[a])
  /\ \A n \in Message : ~IsStored(a, k, n)
  /\ messages[m] = Unused /\ IsStored(a, k, m)'

(* A handler owes an answer for a post alone.                              *)
LEMMA OwedByPosts ==
  ASSUME TypeOK, NEW c \in Client, Handle(c), At(c, "done")'
  PROVE  PostAgain(c) \/ PostNew(c)
<1>1. CASE End(c)
  BY <1>1, Ends DEF NoRequest, At
<1>2. CASE Ask(c)
  BY <1>2 DEF Ask, TypeOK, At
<1>3. CASE Resolve(c) /\ ~End(c)
  <2>1. PICK a : request' = [request EXCEPT ![c] =
            [phase |-> "resolved", asked |-> request[c].asked, app |-> a]]
    BY <1>3 DEF Resolve
  <2> QED
    BY <2>1 DEF TypeOK, At
<1>4. CASE UpdateRead(c) /\ ~End(c)
  <2> DEFINE e == request[c].asked.endpoint
             new == [phase |-> "read", asked |-> request[c].asked, app |-> request[c].app,
                     types |-> endpoints[e].types, rate |-> endpoints[e].rate]
  <2>1. request' = [request EXCEPT ![c] = new]
    BY <1>4 DEF UpdateRead
  <2> QED
    BY <2>1 DEF TypeOK, At
<1>5. CASE FindDoomed(c)
  BY <1>5, FindsOrEnds DEF NoRequest, At
<1> QED
  BY <1>1, <1>2, <1>3, <1>4, <1>5, MostEnd

(* An answer is new only when a post gives it.                             *)
LEMMA GivenByPosts ==
  ASSUME TypeOK, NEW c \in Client, Handle(c),
         NEW a \in App, NEW k \in Key, NEW m \in Message, Given(a, k, m)', ~Given(a, k, m)
  PROVE  k # Null /\ (PostsAgain(c, a, k, m) \/ PostsNew(c, a, k, m))
<1>1. [app |-> a, key |-> k, message |-> m] \notin answers'
  <2>1. CASE Answer(c)
    BY <2>1 DEF Answer, Given, At
  <2>2. CASE answers' = answers
    BY <2>2 DEF Given
  <2> QED
    BY <2>1, <2>2 DEF Handle, Ask, Resolve, HangUp, FindDoomed, CreateApp, UpdateApp, DeleteApp,
       CreateEndpoint, UpdateRead, UpdateWrite, Switch, DeleteEndpoint, PostAgain, PostNew,
       PostFails
<1>2. PICK d \in Client : /\ At(d, "done")' /\ k # Null
                         /\ request'[d].app = a /\ request'[d].asked.key = k
                         /\ request'[d].message = m
  BY <1>1 DEF Given
<1>3. d = c
  BY <1>2, OthersWait DEF Given, At
<1>4. PICK n \in Message : /\ Reply(c, n)
                          /\ \/ PostAgain(c) /\ n \in Stored(request[c].app, request[c].asked.key)
                             \/ /\ PostNew(c) /\ messages[n] = Unused
                                /\ messages' = [messages EXCEPT ![n] =
                                     [app |-> request[c].app, type |-> request[c].asked.type,
                                      key |-> request[c].asked.key]]
  BY <1>2, <1>3, OwedByPosts DEF PostAgain, PostNew, Stored
<1>5. request[c].app = a /\ request[c].asked.key = k /\ n = m
  BY <1>2, <1>3, <1>4 DEF Reply, TypeOK
<1>6. CASE PostAgain(c) /\ n \in Stored(a, k)
  BY <1>2, <1>5, <1>6 DEF PostsAgain, IsStored, Stored
<1>7. CASE /\ PostNew(c) /\ messages[m] = Unused
           /\ messages' = [messages EXCEPT ![m] =
                [app |-> a, type |-> request[c].asked.type, key |-> k]]
  <2>1. Is(apps[a]) /\ Stored(a, k) = {}
    BY <1>5, <1>7 DEF PostNew
  <2>2. \A o \in Message : ~IsStored(a, k, o)
    BY <1>2, <2>1 DEF Stored, IsStored
  <2>3. request[c].asked \in Requests /\ request[c].asked.op = "post"
    BY <1>7, HandlerFacts DEF PostNew, Doing, At
  <2>4. [app |-> a, type |-> request[c].asked.type, key |-> k] \in MessageRow
    BY <2>3, RequestsFit DEF MessageRow
  <2>5. messages'[m] = [app |-> a, type |-> request[c].asked.type, key |-> k]
    BY <1>7 DEF TypeOK
  <2>6. IsStored(a, k, m)'
    BY <2>4, <2>5, RowsAreRows DEF IsStored, Is
  <2> QED
    BY <1>2, <1>7, <2>1, <2>2, <2>6 DEF PostsNew
<1> QED
  BY <1>4, <1>5, <1>6, <1>7

(* An application goes when it is deleted, and not otherwise.              *)
LEMMA AppsGo ==
  ASSUME TypeOK, NEW c \in Client, Handle(c), NEW a \in App, Is(apps[a]), ~Is(apps'[a])
  PROVE  DeleteApp(c) /\ a = request[c].app
<1>1. CASE CreateApp(c)
  BY <1>1 DEF CreateApp, TypeOK, Is
<1>2. CASE UpdateApp(c)
  <2>1. apps'[a] \in AppRow \cup {apps[a]}
    BY <1>2, RenamedIsRow DEF UpdateApp, TypeOK
  <2> QED
    BY <2>1, RowsAreRows
<1>3. CASE DeleteApp(c)
  BY <1>3 DEF DeleteApp, TypeOK
<1>4. CASE apps' = apps
  BY <1>4
<1> QED
  BY <1>1, <1>2, <1>3, <1>4 DEF Handle, Ask, Resolve, HangUp, FindDoomed, CreateEndpoint,
     UpdateRead, UpdateWrite, Switch, DeleteEndpoint, PostAgain, PostNew, PostFails, Answer,
     table

(* A message comes by a post of its key, when none is stored under it.     *)
LEMMA MessagesCome ==
  ASSUME TypeOK, NEW c \in Client, Handle(c), NEW m \in Message, Is(messages'[m]),
         messages'[m] # messages[m]
  PROVE  /\ PostNew(c) /\ apps' = apps /\ Is(apps[messages'[m].app])
         /\ \A n \in Message : n # m => messages'[n] = messages[n]
         /\ \A k \in Key, n \in Message :
              k # Null /\ messages'[m].key = k => ~IsStored(messages'[m].app, k, n)
<1>1. PostNew(c)
  BY DEF Handle, Ask, Resolve, HangUp, FindDoomed, CreateApp, UpdateApp, DeleteApp,
     CreateEndpoint, UpdateRead, UpdateWrite, Switch, DeleteEndpoint, PostAgain, PostFails,
     Answer, table, TypeOK, Is
<1> DEFINE a == request[c].app
           r == request[c].asked
           row == [app |-> a, type |-> r.type, key |-> r.key]
<1>2. /\ Stored(a, r.key) = {} /\ Is(apps[a]) /\ apps' = apps
      /\ messages' = [messages EXCEPT ![m] = row]
  BY <1>1 DEF PostNew, TypeOK
<1>3. messages'[m] = row /\ \A n \in Message : n # m => messages'[n] = messages[n]
  BY <1>2 DEF TypeOK
<1> QED
  BY <1>1, <1>2, <1>3 DEF Stored, IsStored

(* What is queued joins a message and an endpoint of one application.      *)
LEMMA QueuesJoin ==
  ASSUME KeysKept, NEW c \in Client, Handle(c), NEW m \in Message, NEW e \in Endpoint,
         queued'[m][e] > 0
  PROVE  Is(messages'[m]) /\ Is(endpoints'[e]) /\ messages'[m].app = endpoints'[e].app
<1> USE DEF TypeOK
<1>0. TypeOK
  BY DEF KeysKept
<1>1. queued[m][e] > 0 => Is(messages[m]) /\ Is(endpoints[e]) /\ messages[m].app = endpoints[e].app
  BY DEF KeysKept
<1>2. CASE DeleteApp(c)
  <2> DEFINE under(row) == Is(row) /\ row.app = request[c].app
  <2>0. /\ queued'[m][e] = IF under(messages[m]) \/ under(endpoints[e]) THEN 0 ELSE queued[m][e]
        /\ endpoints'[e] = IF under(endpoints[e]) THEN Gone ELSE endpoints[e]
        /\ messages'[m] = IF under(messages[m]) THEN Gone ELSE messages[m]
    BY <1>2 DEF DeleteApp
  <2> HIDE DEF under
  <2>1. messages'[m] = messages[m] /\ endpoints'[e] = endpoints[e] /\ queued'[m][e] = queued[m][e]
    BY <2>0
  <2> QED
    BY <1>1, <2>1
<1>3. CASE DeleteEndpoint(c)
  <2> DEFINE f == request[c].asked.endpoint
  <2>1. messages' = messages /\ queued'[m][e] = queued[m][e] /\ endpoints'[e] = endpoints[e]
    <3>1. CASE UNCHANGED <<endpoints, queued>>
      BY <1>3, <3>1 DEF DeleteEndpoint
    <3>2. CASE /\ endpoints' = [endpoints EXCEPT ![f] = Gone]
               /\ queued' = [n \in Message |-> [queued[n] EXCEPT ![f] = 0]]
      <4>1. queued'[m] = [queued[m] EXCEPT ![f] = 0] /\ queued[m] \in [Endpoint -> {0, 1}]
        BY <1>0, <3>2
      <4>2. e # f
        BY <4>1
      <4> QED
        BY <1>0, <1>3, <3>2, <4>1, <4>2 DEF DeleteEndpoint
    <3> QED
      BY <1>3, <3>1, <3>2 DEF DeleteEndpoint
  <2> QED
    BY <1>1, <2>1
<1>4. CASE PostNew(c)
  <2> DEFINE r == request[c].asked
             a == request[c].app
             row == [app |-> a, type |-> r.type, key |-> r.key]
  <2>1. PICK n \in Message :
          /\ messages[n] = Unused
          /\ messages' = [messages EXCEPT ![n] = row]
          /\ queued' = [queued EXCEPT ![n] =
                          [f \in Endpoint |-> IF f \in Recipients(a, r.type) THEN 1 ELSE 0]]
          /\ endpoints' = endpoints
    BY <1>4 DEF PostNew
  <2>2. CASE m = n
    <3>1. e \in Recipients(a, r.type) /\ messages'[m] = row
      BY <1>0, <2>1, <2>2
    <3>2. r \in Requests /\ r.op = "post" /\ a \in App
      BY <1>0, <1>4, HandlerFacts DEF PostNew, Doing, At
    <3>3. row \in MessageRow
      BY <3>2, RequestsFit DEF MessageRow
    <3> QED
      BY <2>1, <3>1, <3>3, RowsAreRows DEF Recipients, Is
  <2>3. CASE m # n
    BY <1>0, <1>1, <2>1, <2>3
  <2> QED
    BY <2>2, <2>3
<1>5. CASE UNCHANGED <<messages, queued>>
  <2>1. Is(endpoints[e]) /\ messages[m].app = endpoints[e].app /\ Is(messages[m])
    BY <1>1, <1>5
  <2>2. CASE endpoints'[e] = endpoints[e]
    BY <1>5, <2>1, <2>2
  <2>3. CASE UpdateWrite(c) /\ endpoints'[e] # endpoints[e]
    <3>1. endpoints'[e] \in EndpointRow
      BY <1>0, <2>3, UpdatedIsRow DEF UpdateWrite
    <3> QED
      BY <1>0, <1>5, <2>1, <3>1, EndpointsEvolve, RowsAreRows DEF Is
  <2>4. CASE Switch(c) /\ endpoints'[e] # endpoints[e]
    <3>1. endpoints'[e] = [endpoints[e] EXCEPT !.on = request[c].asked.op = "enable"]
      BY <1>0, <2>4 DEF Switch
    <3>2. endpoints'[e] \in EndpointRow
      BY <1>0, <2>1, <3>1, IsRow DEF EndpointRow
    <3> QED
      BY <1>0, <1>5, <2>1, <3>2, EndpointsEvolve, RowsAreRows DEF Is
  <2>5. CASE CreateEndpoint(c)
    BY <1>0, <2>1, <2>2, <2>5 DEF CreateEndpoint, Is
  <2> QED
    BY <1>2, <1>3, <1>4, <2>2, <2>3, <2>4, <2>5 DEF Handle, Ask, Resolve, HangUp, FindDoomed,
       CreateApp, UpdateApp, UpdateRead, PostAgain, PostFails, Answer, table
<1> QED
  BY <1>2, <1>3, <1>4, <1>5 DEF Handle, Ask, Resolve, HangUp, FindDoomed, CreateApp, UpdateApp,
     CreateEndpoint, UpdateRead, UpdateWrite, Switch, PostAgain, PostFails, Answer, table

LEMMA StepKeys == KeysKept /\ [Next]_vars => KeysKept'
<1> SUFFICES ASSUME KeysKept, [Next]_vars
             PROVE  KeysKept'
  OBVIOUS
<1>0. TypeOK /\ TypeOK'
  BY StepTypes DEF KeysKept
<1>1. CASE UNCHANGED vars
  BY <1>0, <1>1 DEF KeysKept, Given, IsStored, At, Is, vars, table
<1>2. ASSUME NEW c \in Client, Handle(c)
      PROVE  KeysKept'
  <2>1. ASSUME NEW m \in Message, Is(messages'[m])
        PROVE  Is(apps'[messages'[m].app])
    <3>1. CASE messages'[m] = messages[m]
      <4>1. Is(messages[m]) /\ Is(apps[messages[m].app]) /\ messages[m].app \in App
        BY <1>0, <2>1, <3>1, IsRow DEF KeysKept, MessageRow
      <4>2. CASE ~Is(apps'[messages[m].app])
        <5>1. DeleteApp(c) /\ messages[m].app = request[c].app
          BY <1>0, <1>2, <4>1, <4>2, AppsGo
        <5>2. messages'[m] = Gone
          BY <4>1, <5>1 DEF DeleteApp
        <5> QED
          BY <2>1, <5>2 DEF Is
      <4> QED
        BY <3>1, <4>1, <4>2
    <3>2. CASE messages'[m] # messages[m]
      BY <1>0, <1>2, <2>1, <3>2, MessagesCome
    <3> QED
      BY <3>1, <3>2
  <2>2. ASSUME NEW a \in App, NEW k \in Key, NEW m \in Message, NEW n \in Message,
               k # Null, IsStored(a, k, m)', IsStored(a, k, n)'
        PROVE  m = n
    <3>1. CASE messages'[m] = messages[m] /\ messages'[n] = messages[n]
      BY <2>2, <3>1 DEF KeysKept, IsStored
    <3>2. CASE messages'[m] # messages[m] /\ m # n
      <4>1. messages'[n] = messages[n] /\ ~IsStored(a, k, n)
        BY <1>0, <1>2, <2>2, <3>2, MessagesCome DEF IsStored
      <4> QED
        BY <2>2, <4>1 DEF IsStored
    <3>3. CASE messages'[n] # messages[n] /\ m # n
      <4>1. messages'[m] = messages[m] /\ ~IsStored(a, k, m)
        BY <1>0, <1>2, <2>2, <3>3, MessagesCome DEF IsStored
      <4> QED
        BY <2>2, <4>1 DEF IsStored
    <3> QED
      BY <3>1, <3>2, <3>3
  <2>3. ASSUME NEW a \in App, NEW k \in Key, NEW m \in Message, Given(a, k, m)
        PROVE  k # Null /\ apps'[a] # Unused /\ (Is(apps'[a]) => IsStored(a, k, m)')
    <3>1. k # Null /\ apps[a] # Unused /\ (Is(apps[a]) => IsStored(a, k, m))
      BY <2>3 DEF KeysKept
    <3>2. apps'[a] # Unused /\ (Is(apps'[a]) => Is(apps[a]))
      BY <1>0, <1>2, <3>1, TablesEvolve
    <3>3. ASSUME Is(apps'[a]), IsStored(a, k, m)
          PROVE  IsStored(a, k, m)'
      BY <1>0, <1>2, <3>3, TablesEvolve DEF IsStored
    <3> QED
      BY <3>1, <3>2, <3>3
  <2>4. ASSUME NEW a \in App, NEW k \in Key, NEW m \in Message, Given(a, k, m)', ~Given(a, k, m)
        PROVE  /\ k # Null /\ Is(apps[a]) /\ Is(apps'[a]) /\ IsStored(a, k, m)'
               /\ \A n \in Message : IsStored(a, k, n) => IsStored(a, k, m)
    <3>1. k # Null /\ (PostsAgain(c, a, k, m) \/ PostsNew(c, a, k, m))
      BY <1>0, <1>2, <2>4, GivenByPosts
    <3>2. CASE PostsAgain(c, a, k, m)
      BY <3>1, <3>2 DEF PostsAgain, PostAgain, KeysKept, IsStored, Is, table
    <3>3. CASE PostsNew(c, a, k, m)
      BY <3>1, <3>3 DEF PostsNew, PostNew
    <3> QED
      BY <3>1, <3>2, <3>3
  <2>5. ASSUME NEW a \in App, NEW k \in Key, NEW m \in Message, Given(a, k, m)'
        PROVE  k # Null /\ apps'[a] # Unused /\ (Is(apps'[a]) => IsStored(a, k, m)')
    BY <2>3, <2>4, <2>5 DEF Is
  <2>6. ASSUME NEW a \in App, NEW k \in Key, NEW m \in Message, NEW n \in Message,
               Given(a, k, m)', Given(a, k, n)'
        PROVE  m = n
    <3>1. CASE Given(a, k, m) /\ Given(a, k, n)
      BY <3>1 DEF KeysKept
    <3>2. CASE ~Given(a, k, m) \/ ~Given(a, k, n)
      BY <2>2, <2>4, <2>5, <2>6, <3>2
    <3> QED
      BY <3>1, <3>2
  <2>7. \A m \in Message, e \in Endpoint : queued'[m][e] > 0 =>
          Is(messages'[m]) /\ Is(endpoints'[e]) /\ messages'[m].app = endpoints'[e].app
    BY <1>2, QueuesJoin
  <2> QED
    BY <1>0, <2>1, <2>2, <2>5, <2>6, <2>7 DEF KeysKept, Is
<1> QED
  BY <1>1, <1>2 DEF Next

(* A retried post does not fan out twice, however many clients retry and   *)
(* whichever handlers are dropped before they have answered.               *)
THEOREM OneMessagePerKey == Spec => []KeyNamesOneMessage
<1>1. Init => KeysKept
  <2> SUFFICES ASSUME Init
               PROVE  KeysKept
    OBVIOUS
  <2>1. TypeOK
    BY StartTypes
  <2>2. /\ \A m \in Message : ~Is(messages[m])
        /\ \A a, k, m : ~Given(a, k, m)
        /\ \A m \in Message, e \in Endpoint : queued[m][e] = 0
    BY DEF Init, Is, Given, At, NoRequest
  <2> QED
    BY <2>1, <2>2 DEF KeysKept, IsStored
<1>2. KeysKept => KeyNamesOneMessage
  <2> SUFFICES ASSUME KeysKept
               PROVE  KeyNamesOneMessage
    OBVIOUS
  <2>1. \A x \in answers : /\ x.app \in App /\ x.key \in Key /\ x.message \in Message
                           /\ Given(x.app, x.key, x.message)
                           /\ x = [app |-> x.app, key |-> x.key, message |-> x.message]
    BY DEF KeysKept, TypeOK, Given
  <2>2. \A x, y \in answers : x.app = y.app /\ x.key = y.key => x.message = y.message
    BY <2>1 DEF KeysKept
  <2>3. \A x \in answers : Is(apps[x.app]) => IsStored(x.app, x.key, x.message)
    BY <2>1 DEF KeysKept
  <2> QED
    BY <2>2, <2>3 DEF KeysKept, KeyNamesOneMessage, IsStored
<1> QED
  BY <1>1, <1>2, StepKeys, PTL DEF Spec
=============================================================================
