--------------------------- MODULE MCActionFunnel ---------------------------
(* TLC instances of ActionFunnel: a process with two threads (the daemon)   *)
(* and a one-shot process, sharing one home directory.                      *)
EXTENDS ActionFunnel, TLC

CONSTANTS p1, p2, c1, c2, c3, k1

MCProcOf == (c1 :> p1) @@ (c2 :> p1) @@ (c3 :> p2)
OneProc == (c1 :> p1) @@ (c2 :> p1)
TwoProcs == (c1 :> p1) @@ (c3 :> p2)

Call(key, mode, yes) ==
    [key |-> key, verb |-> "tap", dials |-> FALSE, mode |-> mode, yes |-> yes]
\* A call that is risky on every screen.
StopApp(key) ==
    [key |-> key, verb |-> "packages_stop", dials |-> FALSE, mode |-> "auto", yes |-> TRUE]

Search(key) ==
    [key |-> key, verb |-> "scroll_until", dials |-> FALSE, mode |-> "auto", yes |-> TRUE]

\* A call that may act, a search, a dry run without --yes and an unconfirmed call.
MixedRequests == {Call(k1, "auto", TRUE), Search(NoKey), Call(NoKey, "dry-run", FALSE),
                  Call(k1, "confirm", FALSE)}

\* Calls that all act, for runs about time.
TimedRequests == {StopApp(k1), StopApp(NoKey)}

\* One-shot calls with a key each.
KeyedRequests == {Call("draft", "auto", TRUE), Call("send", "auto", TRUE)}

\* A plain screen, one that asks for care, and one that policy denies.
MixedScreens == {{}, {"install_keyword", "otp_like_content"},
                 {"payment_keyword", "password_field"}}
PlainScreen == {{}}

DefaultPolicy == [low |-> "allow", medium |-> "allow",
                  high |-> "confirm", critical |-> "deny"]

MCLimits == [global |-> 2, high_risk |-> 1]
NoLimits == [b \in {} |-> 0]
=============================================================================
