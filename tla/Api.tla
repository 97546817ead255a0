--------------------------------- MODULE Api ---------------------------------
(***************************************************************************)
(* The requests that configure applications and endpoints and that post    *)
(* messages.  A handler is a chain of calls of the pool with awaits in     *)
(* between: the first finds the application its URL names by id or by uid, *)
(* a later one writes.  Handlers run side by side and meet at every call,  *)
(* and a client may go away at any time and post the same key again.       *)
(***************************************************************************)
EXTENDS Integers, FiniteSets

CONSTANTS
  App,           \* the ids an application may get
  Endpoint,      \* the ids an endpoint may get
  Message,       \* the ids a message may get
  Client,        \* the requests that are served at once
  Requests,      \* the requests clients make
  Null,          \* NULL in a column, null in a body
  Unsaid,        \* a field that a body leaves out
  Unused, Gone,  \* an id nothing has got yet, and one whose row was deleted
  FirstApps, FirstEndpoints,  \* the tables to begin with
  Name, Uid, Url, Filter, Rate, Type, Key   \* what columns and bodies may hold

AppRow == [name : Name, uid : Uid \cup {Null}]
EndpointRow ==
  [app : App, url : Url, types : Filter \cup {Null}, rate : Rate \cup {Null}, on : BOOLEAN]
MessageRow == [app : App, type : Type, key : Key \cup {Null}]

(* What a body may say, by the handler it is for.  Nothing keeps a uid from *)
(* spelling the id of an application: Uid and App may overlap.             *)
ASSUME RequestsFit ==
  \A r \in Requests :
    /\ r.op = "create app" => r.name \in Name /\ r.uid \in Uid \cup {Null}
    /\ r.op = "update app" => r.name \in Name \cup {Null, Unsaid} /\ r.uid \in Uid \cup {Null, Unsaid}
    /\ r.op = "create endpoint" =>
         r.url \in Url /\ r.types \in Filter \cup {Null} /\ r.rate \in Rate \cup {Null}
    /\ r.op = "update endpoint" =>
         /\ r.endpoint \in Endpoint /\ r.url \in Url \cup {Null, Unsaid}
         /\ r.types \in Filter \cup {Null, Unsaid} /\ r.rate \in Rate \cup {Null, Unsaid}
    /\ r.op \in {"enable", "disable", "delete endpoint"} => r.endpoint \in Endpoint
    /\ r.op = "post" => r.type \in Type /\ r.key \in Key \cup {Null}

(* An id is free, a row, or deleted; endpoints belong to applications.     *)
ASSUME TablesFit ==
  /\ {Unused, Gone} \cap (AppRow \cup EndpointRow \cup MessageRow) = {}
  /\ Unused # Gone
  /\ FirstApps \in [App -> AppRow \cup {Unused}]
  /\ FirstEndpoints \in [Endpoint -> EndpointRow \cup {Unused}]

VARIABLES
  apps,          \* the apps table: name and uid
  endpoints,     \* the endpoints table: whose, where, which types, how fast, on or off
  messages,      \* the messages table: whose, which type, under which key
  queued,        \* how many deliveries of each message there are to each endpoint
  request,       \* what each client's handler is doing
  answers,       \* history: what posts with a key were answered
  meant,         \* history: what a request's URL has named while it was open
  crossed        \* history: the updates another one has written into

table == <<apps, endpoints, messages, queued>>
vars == <<table, request, answers, meant, crossed>>
-----------------------------------------------------------------------------
Is(row) == row \notin {Unused, Gone}

(* Mutant of SaidOrNull: an Option read as serde reads it, null is not there. *)
SaidUnlessNull(value, stored) == IF value \in {Unsaid, Null} THEN stored ELSE value

(* The body's value of a field that may be set to null, or the stored one. *)
SaidOrNull(value, stored) == IF value = Unsaid THEN stored ELSE value

(* COALESCE: the body's value of a field, or the stored one.  Such a field *)
(* cannot be set to NULL, and a null in the body is not a value.           *)
Coalesce(value, stored) == IF value \in {Unsaid, Null} THEN stored ELSE value

(* An application is named by its id or by its uid.  Where a uid spells    *)
(* the id of another one, the id's own row is the first, and is taken.     *)
Named(rows, ref) ==
  LET own == {a \in App : Is(rows[a]) /\ a = ref}
  IN  IF own # {} THEN own ELSE {a \in App : Is(rows[a]) /\ rows[a].uid = ref}

(* Mutant of Scoped: an endpoint is looked up by its id alone.             *)
ScopedById(e, a) == Is(endpoints[e])

(* Every lookup of an endpoint says whose it should be.                    *)
Scoped(e, a) == Is(endpoints[e]) /\ endpoints[e].app = a

(* Mutant of Stored: the key is looked up among everybody's messages.      *)
StoredAnywhere(a, key) ==
  {m \in Message : Is(messages[m]) /\ key # Null /\ messages[m].key = key}

(* The message that was posted under a key before.                         *)
Stored(a, key) ==
  {m \in Message :
     Is(messages[m]) /\ key # Null /\ messages[m].app = a /\ messages[m].key = key}

(* The endpoints a message is queued to.  A filter is the set of the types *)
(* that its patterns cover, and without one every type is.                 *)
Recipients(a, type) ==
  {e \in Endpoint : /\ Is(endpoints[e]) /\ endpoints[e].app = a /\ endpoints[e].on
                    /\ endpoints[e].types = Null \/ type \in endpoints[e].types}

UidTaken(uid, a) ==
  uid \notin {Null, Unsaid} /\ \E b \in App \ {a} : Is(apps[b]) /\ apps[b].uid = uid
-----------------------------------------------------------------------------
(* Handlers *)

NoRequest == [phase |-> "none"]

(* What a handler has in memory between its calls.                         *)
HandlerState ==
  {NoRequest}
  \cup [phase : {"asked"}, asked : Requests]
  \cup [phase : {"resolved"}, asked : Requests, app : App]
  \cup [phase : {"found"}, asked : {r \in Requests : r.op = "delete app"}, app : App,
        resolved : App]
  \cup [phase : {"read"}, asked : {r \in Requests : r.op = "update endpoint"}, app : App,
        types : Filter \cup {Null}, rate : Rate \cup {Null}]
  \cup [phase : {"done"}, asked : {r \in Requests : r.op = "post"}, app : App, message : Message]

At(c, phase) == request[c].phase = phase

Doing(c, op) == At(c, "resolved") /\ request[c].asked.op = op

(* The handler is done: it has answered, refused, or given up.             *)
End(c) == request' = [request EXCEPT ![c] = NoRequest]

(* What the URLs of the open requests name, from moment to moment.         *)
Remember ==
  meant' = [c \in Client |->
              IF request'[c].phase = "none" THEN {}
              ELSE meant[c] \cup {[app |-> a, name |-> apps'[a].name] :
                                    a \in Named(apps', request'[c].asked.ref)}]

Ask(c) ==
  /\ At(c, "none")
  /\ \E r \in Requests : request' = [request EXCEPT ![c] = [phase |-> "asked", asked |-> r]]
  /\ UNCHANGED <<table, answers, crossed>>
  /\ Remember

(* A delete goes ahead only when the application's name was repeated.      *)
Confirmed(r, a) == r.op = "delete app" => r.confirm = apps[a].name

(* The first call: which application the URL names.  Its id is kept; when  *)
(* there is none, or it is not confirmed, the request is refused.          *)
Resolve(c) ==
  LET r == request[c].asked
      accepted == {a \in Named(apps, r.ref) : Confirmed(r, a)}
  IN  /\ At(c, "asked") /\ r.op # "create app"
      /\ \/ \E a \in accepted :
              request' = [request EXCEPT ![c] = [phase |-> "resolved", asked |-> r, app |-> a]]
         \/ accepted = {} /\ End(c)
      /\ UNCHANGED <<table, answers, crossed>>
      /\ Remember

(* The client goes away and the handler is dropped where it waits for a    *)
(* call.  One call does all of update, in both its forms, and the second   *)
(* lookup of a delete with what follows, so those finish.                  *)
HangUp(c) ==
  /\ \/ At(c, "asked") \/ At(c, "done")
     \/ At(c, "resolved") /\ request[c].asked.op # "update app"
  /\ End(c)
  /\ UNCHANGED <<table, answers, crossed>>
  /\ Remember
-----------------------------------------------------------------------------
(* Applications *)

CreateApp(c) ==
  LET r == request[c].asked
  IN  /\ At(c, "asked") /\ r.op = "create app"
      /\ IF UidTaken(r.uid, Null) THEN UNCHANGED apps
         ELSE \E a \in App : /\ apps[a] = Unused
                             /\ apps' = [apps EXCEPT ![a] = [name |-> r.name, uid |-> r.uid]]
      /\ End(c)
      /\ UNCHANGED <<endpoints, messages, queued, answers, crossed>>
      /\ Remember

UpdateApp(c) ==
  LET r == request[c].asked
      a == request[c].app
  IN  /\ Doing(c, "update app")
      /\ apps' = IF ~Is(apps[a]) \/ UidTaken(r.uid, a) THEN apps
                 ELSE [apps EXCEPT ![a] = [name |-> Coalesce(r.name, apps[a].name),
                                           uid |-> Coalesce(r.uid, apps[a].uid)]]
      /\ End(c)
      /\ UNCHANGED <<endpoints, messages, queued, answers, crossed>>
      /\ Remember

(* Mutant of FoundAgain: what the URL names is looked up, not its id.      *)
FoundByReference(c) == Named(apps, request[c].asked.ref)

(* A delete looks the id up once more, by id or uid as ever.               *)
FoundAgain(c) == Named(apps, request[c].app)

(* The second call of a delete begins with that lookup...                  *)
FindDoomed(c) ==
  /\ Doing(c, "delete app")
  /\ \/ \E a \in FoundAgain(c) :
          request' = [request EXCEPT ![c] =
            [phase |-> "found", asked |-> @.asked, app |-> a, resolved |-> @.app]]
     \/ FoundAgain(c) = {} /\ End(c)
  /\ UNCHANGED <<table, answers, crossed>>
  /\ Remember

(* ...and deletes what it found, by id and in a statement of its own.      *)
(* Everything under the application goes with it.                          *)
DeleteApp(c) ==
  LET under(row) == Is(row) /\ row.app = request[c].app
  IN  /\ At(c, "found")
      /\ apps' = [apps EXCEPT ![request[c].app] = Gone]
      /\ endpoints' = [e \in Endpoint |-> IF under(endpoints[e]) THEN Gone ELSE endpoints[e]]
      /\ messages' = [m \in Message |-> IF under(messages[m]) THEN Gone ELSE messages[m]]
      /\ queued' = [m \in Message |-> [e \in Endpoint |->
                      IF under(messages[m]) \/ under(endpoints[e]) THEN 0 ELSE queued[m][e]]]
      /\ End(c)
      /\ UNCHANGED <<answers, crossed>>
      /\ Remember
-----------------------------------------------------------------------------
(* Endpoints *)

(* An application deleted meanwhile leaves nothing to refer to.            *)
CreateEndpoint(c) ==
  LET r == request[c].asked
      a == request[c].app
  IN  /\ Doing(c, "create endpoint")
      /\ IF ~Is(apps[a]) THEN UNCHANGED endpoints
         ELSE \E e \in Endpoint :
                /\ endpoints[e] = Unused
                /\ endpoints' = [endpoints EXCEPT ![e] =
                     [app |-> a, url |-> r.url, types |-> r.types, rate |-> r.rate, on |-> TRUE]]
      /\ End(c)
      /\ UNCHANGED <<apps, messages, queued, answers, crossed>>
      /\ Remember

(* Update reads the endpoint...                                            *)
UpdateRead(c) ==
  LET e == request[c].asked.endpoint
  IN  /\ Doing(c, "update endpoint")
      /\ IF Scoped(e, request[c].app)
         THEN request' = [request EXCEPT ![c] =
                [phase |-> "read", asked |-> @.asked, app |-> @.app,
                 types |-> endpoints[e].types, rate |-> endpoints[e].rate]]
         ELSE End(c)
      /\ UNCHANGED <<table, answers, crossed>>
      /\ Remember

(* The row after an update whose handler holds what it read.               *)
Updated(row, handler) ==
  LET r == handler.asked
  IN  [row EXCEPT !.url = Coalesce(r.url, row.url),
                  !.types = SaidOrNull(r.types, handler.types),
                  !.rate = SaidOrNull(r.rate, handler.rate)]

(* ...and writes what was read where the body said nothing, by another     *)
(* statement and with no transaction around both.                          *)
UpdateWrite(c) ==
  LET e == request[c].asked.endpoint
  IN  /\ At(c, "read")
      /\ endpoints' = IF ~Scoped(e, request[c].app) THEN endpoints
                      ELSE [endpoints EXCEPT ![e] = Updated(endpoints[e], request[c])]
      /\ crossed' = (crossed \ {c}) \cup {d \in Client \ {c} :
                                            At(d, "read") /\ request[d].asked.endpoint = e}
      /\ End(c)
      /\ UNCHANGED <<apps, messages, queued, answers>>
      /\ Remember

(* Switching off and on.  What it does to the queue is DeliveryQueue's.    *)
Switch(c) ==
  LET e == request[c].asked.endpoint
  IN  /\ Doing(c, "enable") \/ Doing(c, "disable")
      /\ endpoints' = IF Scoped(e, request[c].app)
                      THEN [endpoints EXCEPT ![e].on = request[c].asked.op = "enable"]
                      ELSE endpoints
      /\ End(c)
      /\ UNCHANGED <<apps, messages, queued, answers, crossed>>
      /\ Remember

DeleteEndpoint(c) ==
  LET e == request[c].asked.endpoint
  IN  /\ Doing(c, "delete endpoint")
      /\ IF Scoped(e, request[c].app)
         THEN /\ endpoints' = [endpoints EXCEPT ![e] = Gone]
              /\ queued' = [m \in Message |-> [queued[m] EXCEPT ![e] = 0]]
         ELSE UNCHANGED <<endpoints, queued>>
      /\ End(c)
      /\ UNCHANGED <<apps, messages, answers, crossed>>
      /\ Remember
-----------------------------------------------------------------------------
(* Messages *)

Reply(c, m) ==
  request' = [request EXCEPT ![c] =
                [phase |-> "done", asked |-> @.asked, app |-> @.app, message |-> m]]

(* The key is known: the stored message is the answer, nothing is queued.  *)
PostAgain(c) ==
  /\ Doing(c, "post")
  /\ \E m \in Stored(request[c].app, request[c].asked.key) : Reply(c, m)
  /\ UNCHANGED <<table, answers, crossed>>
  /\ Remember

(* A new message, and in the same transaction its deliveries.              *)
PostNew(c) ==
  LET r == request[c].asked
      a == request[c].app
  IN  /\ Doing(c, "post")
      /\ Stored(a, r.key) = {}
      /\ Is(apps[a])
      /\ \E m \in Message :
           /\ messages[m] = Unused
           /\ messages' = [messages EXCEPT ![m] = [app |-> a, type |-> r.type, key |-> r.key]]
           /\ queued' = [queued EXCEPT ![m] =
                           [e \in Endpoint |-> IF e \in Recipients(a, r.type) THEN 1 ELSE 0]]
           /\ Reply(c, m)
      /\ UNCHANGED <<apps, endpoints, answers, crossed>>
      /\ Remember

(* The application is gone, and nothing can refer to it.                   *)
PostFails(c) ==
  /\ Doing(c, "post")
  /\ Stored(request[c].app, request[c].asked.key) = {}
  /\ ~Is(apps[request[c].app])
  /\ End(c)
  /\ UNCHANGED <<table, answers, crossed>>
  /\ Remember

(* The answer reaches the client.                                          *)
Answer(c) ==
  /\ At(c, "done")
  /\ answers' = IF request[c].asked.key = Null THEN answers
                ELSE answers \cup {[app |-> request[c].app, key |-> request[c].asked.key,
                                    message |-> request[c].message]}
  /\ End(c)
  /\ UNCHANGED <<table, crossed>>
  /\ Remember
-----------------------------------------------------------------------------
Init ==
  /\ apps = FirstApps
  /\ endpoints = FirstEndpoints
  /\ messages = [m \in Message |-> Unused]
  /\ queued = [m \in Message |-> [e \in Endpoint |-> 0]]
  /\ request = [c \in Client |-> NoRequest]
  /\ answers = {}
  /\ meant = [c \in Client |-> {}]
  /\ crossed = {}

Handle(c) ==
  \/ Ask(c) \/ Resolve(c) \/ HangUp(c)
  \/ CreateApp(c) \/ UpdateApp(c) \/ FindDoomed(c) \/ DeleteApp(c)
  \/ CreateEndpoint(c) \/ UpdateRead(c) \/ UpdateWrite(c) \/ Switch(c) \/ DeleteEndpoint(c)
  \/ PostAgain(c) \/ PostNew(c) \/ PostFails(c) \/ Answer(c)

Next == \E c \in Client : Handle(c)

Spec == Init /\ [][Next]_vars
-----------------------------------------------------------------------------
(* Properties *)

TypeOK ==
  /\ apps \in [App -> AppRow \cup {Unused, Gone}]
  /\ endpoints \in [Endpoint -> EndpointRow \cup {Unused, Gone}]
  /\ messages \in [Message -> MessageRow \cup {Unused, Gone}]
  /\ queued \in [Message -> [Endpoint -> {0, 1}]]
  /\ request \in [Client -> HandlerState]
  /\ answers \subseteq [app : App, key : Key, message : Message]
  /\ meant \in [Client -> SUBSET [app : App, name : Name]]
  /\ crossed \subseteq Client

(* A retried post does not fan out twice: whatever clients retried, however  *)
(* their requests overlapped and whose answers were lost, all answers to one *)
(* key of one application name one message, which is that application's, is  *)
(* stored under that key while the application lives, and is queued to that  *)
(* application's endpoints only (messages::create; docs/api.md:116-119).     *)
KeyNamesOneMessage ==
  /\ \A x, y \in answers : x.app = y.app /\ x.key = y.key => x.message = y.message
  /\ \A x \in answers : Is(apps[x.app]) =>
       /\ Is(messages[x.message])
       /\ messages[x.message].app = x.app /\ messages[x.message].key = x.key
  /\ \A m \in Message, e \in Endpoint : queued[m][e] > 0 =>
       Is(messages[m]) /\ Is(endpoints[e]) /\ messages[m].app = endpoints[e].app

(* A body mentions a field that is there, with a null or without where the *)
(* field may be cleared.                                                   *)
Mentions(r, f) == r[f] # Unsaid /\ (f = "url" => r[f] # Null)

(* An update changes what its body mentions - null is a mention of a filter *)
(* or a limit - and leaves the rest as it finds it, unless another update of *)
(* the endpoint has written since it read: then a filter or a limit that the *)
(* other set may be undone, though never a URL (endpoints::update,           *)
(* explicit_null).                                                           *)
UpdateKeepsTheRest ==
  [][\A c \in Client :
       LET r == request[c].asked
           kept == IF c \in crossed THEN {"url"} ELSE {"url", "types", "rate"}
       IN  At(c, "read") /\ At(c, "none")' /\ Is(endpoints[r.endpoint]) =>
             \A f \in kept :
               endpoints'[r.endpoint][f] =
                 IF Mentions(r, f) THEN r[f] ELSE endpoints[r.endpoint][f]]_vars

RowsOf(a) ==
  <<apps[a],
    [e \in Endpoint |-> IF Is(endpoints[e]) /\ endpoints[e].app = a THEN endpoints[e] ELSE Null],
    [m \in Message |-> IF Is(messages[m]) /\ messages[m].app = a THEN messages[m] ELSE Null]>>

(* A delete that has been confirmed for application b, which somebody else *)
(* has deleted since, and whose second lookup found a: a's uid spelled b's *)
(* id.                                                                     *)
Misled(c, a, b) ==
  /\ At(c, "found") /\ request[c].app = a
  /\ request[c].resolved = b /\ a # b /\ apps[b] = Gone

(* What a request changes belongs to an application its URL named at some    *)
(* moment while it was open, and what it deletes bore, at such a moment, the *)
(* name that was repeated - although uids move, spell other ids, and names   *)
(* change between the handler's calls (app_id, apps::delete, the app_id of   *)
(* every WHERE).  The exception is a delete that comes too late and is       *)
(* misled by a uid: then the name was repeated for the one already gone.     *)
ActsOnWhatWasMeant ==
  [][\A a \in App : Is(apps[a]) /\ RowsOf(a)' # RowsOf(a) =>
       \E c \in Client : \E x \in meant[c] :
         /\ request'[c] # request[c]
         /\ x.app = a \/ Misled(c, a, x.app)
         /\ apps'[a] = Gone => request[c].asked.confirm = x.name]_vars
===============================================================================
