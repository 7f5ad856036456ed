--------------------------- MODULE MCConfigReload ---------------------------
(***************************************************************************)
(* ConfigReload with two keys, the root key and three client keys.  Of the *)
(* files, first and second bind the profile to different keys and differ   *)
(* in who may use it: the administrator of first is revoked in second,     *)
(* which also has a disabled client.  garbled does not parse.              *)
(***************************************************************************)
EXTENDS ConfigReload, TLC

Client(name, hash, status, permissions) ==
    [client |-> name, apikey_hash |-> hash, status |-> status,
     permissions |-> permissions]

Grant(kid, actions) == [kid |-> kid, actions |-> actions]

Content(permissions, kid) ==
    [parses |-> TRUE, sound |-> TRUE, permissions |-> permissions,
     profiles |-> << [name |-> "p", kid |-> kid] >>]

Texts ==
    [first |->
       Content(<< Client("alice", "h1", "active",
                         << Grant("k1", <<"mac-create">>), Grant("k2", <<"mac-create">>) >>),
                  Client("bob", "h2", "active", << Grant("k1", <<"admin">>) >>) >>,
               "k1"),
     second |->
       Content(<< Client("alice", "h1", "active",
                         << Grant("*", <<"metrics">>), Grant("k1", <<"mac-create">>) >>),
                  Client("bob", "h2", "revoked", << Grant("k1", <<"admin">>) >>),
                  Client("carol", "h3", "disabled", << Grant("k2", <<"mac-create">>) >>) >>,
               "k2"),
     garbled |-> [Content(<< >>, "k1") EXCEPT !.parses = FALSE]]

MCText == Texts

Symmetry == Permutations(Workers)
=============================================================================
