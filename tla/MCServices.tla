------------------------------ MODULE MCServices ------------------------------
(* Instances of ServiceParts for TLC. *)
EXTENDS ServiceParts

(* Detection: two tenants, a user of the first, one marker of each kind and a   *)
(* second entity that shares the template's words.                              *)

CONSTANTS a, b, u, v

Mk(id, type, tokens, tenant, user) ==
    [id |-> id, type |-> type, tokens |-> tokens, tenant |-> tenant, user |-> user]

T(x) == <<x>>
Body   == <<"k1", "k2">>
Onyx   == Mk("onyx", "entity", <<T("project"), T("onyx"), <<"0", "7">> >>, a, NoUser)
Quartz == Mk("quartz", "entity", <<T("project"), T("quartz")>>, b, NoUser)
Hard   == Mk("hard", "hard", <<Body>>, a, u)
Secret == Mk("secret", "secret", <<T("sk")>>, a, NoUser)
Opaque == {Body}
Manifest == <<Onyx, Quartz, Hard, Secret>>

Observer(t, usr) == [tenant |-> t, user |-> usr]
Twice == <<[observer |-> Observer(b, NoUser), techniques |-> {"lookup"}, target |-> "hard"],
           [observer |-> Observer(b, NoUser), techniques |-> {"inject"}, target |-> "hard"]>>
Own   == <<[observer |-> Observer(a, v), techniques |-> {"lookup"}, target |-> "hard"],
           [observer |-> Observer(b, NoUser), techniques |-> {"inject"}, target |-> "onyx"]>>
TwoPlans == {Twice, Own}

Text(tokens, bytes) == [tokens |-> tokens, bytes |-> bytes]
Answered == {
    Text(Onyx.tokens \o <<T("note")>>, "verbatim"),
    Text(Onyx.tokens, "recased"),
    Text(<<T("project"), T("note"), T("onyx"), <<"0", "7">> >>, "verbatim"),
    Text(<<T("onyx"), T("note"), T("project"), <<"0", "7">> >>, "verbatim"),
    Text(<<T("project"), T("quartz"), T("note"), <<"0", "7">> >>, "repunctuated"),
    Text(<<T("k1"), T("k2"), T("sk")>>, "verbatim"),
    Text(<<T("note")>>, "verbatim")}
Cited == {Text(<<>>, "verbatim"), Text(<<T("note")>>, "verbatim"), Text(<<T("project")>>, "verbatim"),
          Text(<<T("onyx"), T("note")>>, "verbatim"), Text(<<T("note"), <<"0", "7">> >>, "verbatim")}
Labels == [positive : BOOLEAN, similarity : {0, 2, 4}, of : {"x", "y"}]
=============================================================================
