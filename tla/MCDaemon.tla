------------------------------ MODULE MCDaemon ------------------------------
(* TLC instances of Daemon: clients that act, run macros, look, stop, shut    *)
(* down and poll events; and the small ones that show what a document says.  *)
EXTENDS Daemon
CONSTANTS c1, c2

Request(method) == [Nothing EXCEPT !.method = method]
Mixed == {Request(m) : m \in {"act", "macro_run", "observe", "stop", "events_poll",
                              "macro_cancel", "shutdown"}}
Cancelling == {Request("macro_run"), [Request("macro_cancel") EXCEPT !.job = 1]}
Pinned == {Request("observe"), [Request("act") EXCEPT !.pin = 1]}
Acting == {Request("act")}
=============================================================================
