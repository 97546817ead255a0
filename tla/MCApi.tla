-------------------------------- MODULE MCApi --------------------------------
(* Two applications whose uid may move or spell the other's id, an endpoint *)
(* of the first, and the requests two clients make of them, in any order    *)
(* and as often as they like.                                               *)
EXTENDS Api, TLC

CONSTANTS a1, a2, e1

MCApps == (a1 :> [name |-> "n1", uid |-> "u1"]) @@ (a2 :> [name |-> "n2", uid |-> Null])
          @@ [a \in App |-> Unused]

MCUids == {"u1", "u2", a1}

MCEndpoints ==
  (e1 :> [app |-> a1, url |-> "here", types |-> {"paid"}, rate |-> Null, on |-> FALSE])
  @@ [e \in Endpoint |-> Unused]

Post(ref, type, key) == [op |-> "post", ref |-> ref, type |-> type, key |-> key]

Update(url, types, rate) ==
  [op |-> "update endpoint", ref |-> a1, endpoint |-> e1, url |-> url, types |-> types,
   rate |-> rate]

MCRequests ==
  {Post("u1", "paid", "k"), Post(a2, "paid", "k")}
  \cup {Update(Null, Null, Unsaid), Update("there", Unsaid, 1)}
  \cup {[op |-> "update app", ref |-> a1, uid |-> "u2", name |-> Null],
        [op |-> "update app", ref |-> a2, uid |-> "u1", name |-> "n3"],
        [op |-> "delete app", ref |-> "u1", confirm |-> "n1"],
        [op |-> "create app", ref |-> Unsaid, uid |-> a1, name |-> "n4"]}
  \cup {[op |-> "create endpoint", ref |-> a2, url |-> "here", types |-> Null, rate |-> Null],
        [op |-> "enable", ref |-> "u1", endpoint |-> e1],
        [op |-> "delete endpoint", ref |-> "u1", endpoint |-> e1]}

Symmetry == Permutations(Client) \cup Permutations(Message)
===============================================================================
