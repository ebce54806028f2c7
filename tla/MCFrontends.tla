---------------------------- MODULE MCFrontends ----------------------------
(***************************************************************************)
(* Frontends with requests and manifests that reach every answer: names    *)
(* with blanks around them, two entries that end up under one name, a      *)
(* missing key, texts where options belong, and listings in which a name   *)
(* is shared by two rows, an id does not fit into a path and a row has     *)
(* none.                                                                   *)
(***************************************************************************)
EXTENDS Frontends

CONSTANTS x, y, bad, token, other, keyA, keyB

AllNames == {"a", " a", "b", "c", "a b"}
AllSlugs == {"a", "b", "c"}
TrimmedNames == [n \in AllNames |-> IF n = " a" THEN "a" ELSE n]

Entry(n, k, m) == [name |-> n, key |-> k, metric |-> m]

AllManifests ==
    {NoManifest, BadManifest,
     <<Entry("a", keyA, TRUE), Entry(" a", keyB, TRUE)>>,
     <<Entry("a", keyA, TRUE), Entry("b", keyB, FALSE)>>,
     <<Entry("a", keyA, TRUE), Entry("b", NoKey, TRUE)>>,
     <<Entry("a b", keyA, TRUE)>>}

Environment(revision, retries, ttl, tokens) ==
    [revision |-> revision, retries |-> retries, ttl |-> ttl, tokens |-> tokens]

AllSettings ==
    {Environment(TRUE, 3, 300, {token}), Environment(TRUE, 0, 0, {}), Environment(FALSE, 3, 300, {token}),
     Environment(TRUE, -1, 300, {token}), Environment(TRUE, 3, NotANumber, {token})}

Row(i, s) == [id |-> i, send |-> s]

AllListings == {<<Row(x, TRUE), Row(NoId, FALSE), Row(y, FALSE), Row(x, TRUE), Row(bad, TRUE)>>}

Request(op, acc, id, option, rollup) ==
    [op |-> op, account |-> acc, id |-> id, option |-> option, rollup |-> rollup,
     body |-> TRUE, bearer |-> token, header |-> NoCred]

AllRequests ==
    {Request("campaigns", "a", "absent", "true", "absent"),
     Request("campaigns", "b", "absent", "text", "absent"),
     Request("flow_report", " a", "absent", "true", "false"),
     Request("flow_report", NoName, "absent", "true", "true"),
     Request("structure", NoName, "sound", "absent", "absent"),
     Request("structure", "a", "absent", "absent", "absent"),
     Request("growth", "b", "absent", "absent", "absent"),
     Request("series", "a", "absent", "absent", "absent"),
     Request("compare", "b", "sound", "absent", "absent"),
     Request("compare", "a", "malformed", "absent", "absent"),
     Request("list_health", "a", "absent", "absent", "absent"),
     Request("list_health", "a", "malformed", "absent", "absent"),
     Request("flows", NoName, "absent", "false", "absent"),
     Request("flows", "a", "absent", "text", "absent"),
     Request("flows", "c", "absent", "true", "absent"),
     Request("flows", NotText, "absent", "absent", "absent"),
     Request("list_accounts", NoName, "absent", "absent", "absent"),
     Request("unknown", NoName, "absent", "absent", "absent"),
     [Request("campaigns", "a", "absent", "absent", "absent") EXCEPT !.body = FALSE],
     [Request("flows", "a", "absent", "true", "absent") EXCEPT !.bearer = NoCred, !.header = other],
     [Request("flows", "a", "absent", "absent", "absent") EXCEPT !.bearer = NotAscii],
     [Request("unknown", "a", "absent", "absent", "absent") EXCEPT !.bearer = NoCred],
     [Request("health", NoName, "absent", "absent", "absent") EXCEPT !.bearer = NoCred]}
=============================================================================
