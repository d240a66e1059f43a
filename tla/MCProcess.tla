----------------------------- MODULE MCProcess -----------------------------
(***************************************************************************)
(* Model values for Process: two lists of remotes that are fine, and one   *)
(* for each way to be wrong.                                               *)
(***************************************************************************)
EXTENDS Process
CONSTANTS p1, c1, c2, up, s1
MCPushers == {p1}
MCOneClient == {c1}
MCClients == {c1, c2}
MCDigests == {up}
MCSrcs == {s1}
MCNames == {"a", "b", "a/b", "a b"}
MCSlashed == {"a/b"}
MCSpaced == {"a b"}
Good(n) == [name |-> n, url |-> "absolute"]
MCEnvironment ==
  {<<Good("a"), Good("b")>>, <<>>, <<Good("a"), Good("b"), Good("a")>>,
   <<Good("a/b")>>, <<Good("b"), Good("a b")>>, <<Good("")>>}
    \cup {<<Good("a"), [name |-> "b", url |-> u]>> : u \in {"", "relative", "invalid"}}
(* Nothing set; what only one program refuses, for each; what both do; and *)
(* what neither does.                                                      *)
Unset == [k \in HubKnob \cup ExampleKnob |-> "unset"]
MCSettings ==
  {Unset,
   [Unset EXCEPT !["sse drain"] = "zero", !["drain grace"] = "negative"],
   [Unset EXCEPT !["webhook"] = "malformed", !["proxy"] = "malformed"],
   [Unset EXCEPT !["push interval"] = "positive", !["drain"] = "zero",
                 !["collapse"] = "zero", !["drain grace"] = "zero"]}
=============================================================================
