---------------------------- MODULE CompanionSetup ----------------------------
(***************************************************************************)
(* companion_setup.py: `droidjig companion setup`, which brings the          *)
(* companion up in six steps (install, accessibility, notifications, token,  *)
(* server, verify) and may be run again after any of them has failed or the  *)
(* process was interrupted.  Every step looks first whether it is done.      *)
(*                                                                         *)
(* The host's record is config.json, read whole when the command starts and  *)
(* written whole by some steps; the phone has the package, the token of the   *)
(* companion's preferences, the accessibility setting and the server.  Its    *)
(* owner answers the prompts and uses the phone and `config set` meanwhile.   *)
(* No step but the install looks at the return code of an adb call: over a   *)
(* link that fails, what is asked for reads as absent and what is written     *)
(* may be lost, without a word.  Notifications are granted without a way to    *)
(* fail, and verify's answer is the dispatcher's (CompanionLink has the        *)
(* conversation).                                                           *)
(***************************************************************************)
EXTENDS Naturals

CONSTANTS
    Builds,         \* APKs: [name, key, debuggable]; key is the one that signed it
    None,           \* no package, no token, no hash
    Attempts,       \* start_server's polls for the socket
    Delay,          \* polls that pass before a started server listens
    MaxTokens,      \* bound: tokens minted on the phone
    MaxRuns,        \* bound: commands
    MaxUpsets       \* bound: what the owner and the phone do by themselves

ASSUME SetupConstants ==
    /\ {Attempts, Delay, MaxTokens, MaxRuns, MaxUpsets} \subseteq Nat
    \* The server is up when its last poll comes.
    /\ Delay < Attempts /\ None \notin Builds /\ None \notin 0..MaxTokens

VARIABLES
    package, token, minted,  \* the phone: build, token of the preferences, tokens so far
    enabled,                 \* its accessibility services: of {"companion", "other"}
    server,                  \* polls until it listens: 0 listens, Down is not started
    flaky,                   \* adb's link: a call may go unanswered, or not reach the phone
    disk,                    \* config.json: [token, sha, port]
    run,                     \* the command: see NoRun
    runs, upsets,
    calm,                    \* history: during the run nothing but the run happened
    touched,                 \* history: other was switched since the setting was read
    misread,                 \* history: the reading of the setting failed
    fits,                    \* history: when the run started, the hash on file was that of
                             \* the package, or there was none of one of them
    broken                   \* history: the host's token is not the companion's, because
                             \* the companion lost it or it was pasted wrong

phone == <<package, token, minted, enabled, server>>
ghosts == <<runs, upsets, calm, touched, misread, fits, broken>>
vars == <<phone, flaky, disk, run, ghosts>>

Down == Delay + 1
Tokens == 1..MaxTokens
Wrong == 0              \* a token that is no companion's
NoRun == [pc |-> "idle", apk |-> None, agree |-> FALSE, cfg |-> [token |-> None, sha |-> None, port |-> FALSE],
          read |-> {}, polls |-> 0, result |-> "none"]

Init ==
    /\ package = None /\ token = None /\ minted = 0
    /\ enabled \in SUBSET {"other"} /\ server = Down
    /\ flaky = FALSE /\ disk = NoRun.cfg /\ run = NoRun
    /\ runs = 0 /\ upsets = 0 /\ calm = TRUE /\ broken = FALSE
    /\ touched = FALSE /\ misread = FALSE /\ fits = TRUE

(* ---------------------------- the command ------------------------------- *)

\* config.load, and the answers its owner will give.
Start(apk, agree) ==
    /\ run.pc = "idle" /\ runs < MaxRuns /\ runs' = runs + 1
    /\ run' = [NoRun EXCEPT !.pc = "install", !.apk = apk, !.agree = agree, !.cfg = disk]
    /\ calm' = ~flaky /\ touched' = FALSE /\ misread' = FALSE
    /\ fits' = (package # None => disk.sha \in {None, package})
    /\ UNCHANGED <<phone, disk, upsets, broken>>

Goto(pc) == run' = [run EXCEPT !.pc = pc]
Finish(result) == run' = [run EXCEPT !.pc = "idle", !.result = result]
\* Keep cfg in memory and go on.
With(cfg, pc) == run' = [run EXCEPT !.cfg = cfg, !.pc = pc]
\* config.save writes the whole of it.
Save(cfg, pc) == With(cfg, pc) /\ disk' = cfg

\* adb install: the old process is gone; the preferences stay.  The hash is kept in
\* memory, until a later step saves.
Installs ==
    /\ package' = run.apk /\ server' = Down
    /\ With([run.cfg EXCEPT !.sha = run.apk], "access")
    /\ UNCHANGED <<token, minted, enabled, disk, ghosts>>
InstallFails == Finish("install") /\ UNCHANGED <<phone, disk, ghosts>>
\* The phone has installed it, and adb's answer was lost.
InstallUnanswered ==
    /\ flaky /\ package' = run.apk /\ server' = Down /\ Finish("install")
    /\ UNCHANGED <<token, minted, enabled, disk, ghosts>>
Current == package # None /\ run.cfg.sha = run.apk
SameKey == IF package = None THEN TRUE ELSE package.key = run.apk.key
InstallSkipped ==
    run.pc = "install" /\ Current /\ Goto("access") /\ UNCHANGED <<phone, disk, ghosts>>
Wanted == run.pc = "install" /\ (~Current \/ flaky)
Install ==
    /\ Wanted
    /\ \/ SameKey /\ (Installs \/ InstallFails \/ InstallUnanswered)
       \/ flaky /\ InstallFails
\* Another key: the old build is removed, and with it the token and the grants.
Uninstall ==
    /\ Wanted /\ ~SameKey
    /\ package' = None /\ token' = None /\ server' = Down
    /\ enabled' = enabled \ {"companion"}
    /\ broken' = (broken \/ disk.token # None)
    /\ Goto("reinstall") /\ UNCHANGED <<minted, disk, runs, upsets, calm, touched, misread, fits>>
Reinstall == run.pc = "reinstall" /\ (Installs \/ InstallFails \/ InstallUnanswered)

AccessSkipped ==
    /\ run.pc = "access" /\ "companion" \in enabled
    /\ Goto("token") /\ UNCHANGED <<phone, disk, ghosts>>
\* What `settings get` prints: the services, or nothing when the call fails.
Printed == {enabled} \cup (IF flaky THEN {{}} ELSE {})
\* The setting is read, its owner asked, and the setting written from what was read.
ReadAccess ==
    /\ run.pc = "access"
    /\ \E current \in Printed :
        /\ "companion" \notin current
        /\ IF run.agree
           THEN /\ run' = [run EXCEPT !.pc = "put", !.read = current]
                /\ touched' = FALSE /\ misread' = (current # enabled)
           ELSE Finish("declined") /\ UNCHANGED <<touched, misread>>
    /\ UNCHANGED <<phone, disk, runs, upsets, calm, fits, broken>>
\* Mutant: the setting is overwritten, not appended to.
AppendedAlone(read) == {"companion"}
Appended(read) == read \cup {"companion"}
PutAccess ==
    /\ run.pc = "put" /\ Goto("token")
    /\ \/ enabled' = Appended(run.read)
       \/ flaky /\ UNCHANGED enabled
    /\ UNCHANGED <<package, token, minted, server, disk, ghosts>>

TokenSkipped ==
    /\ run.pc = "token" /\ run.cfg.token # None
    /\ Goto("server") /\ UNCHANGED <<phone, disk, ghosts>>
\* run-as reads the preferences of a debuggable build, when there is a token.
Readable == package.debuggable /\ token # None
TokenByRunAs ==
    /\ run.pc = "token" /\ run.cfg.token = None /\ Readable
    /\ Save([run.cfg EXCEPT !.token = token], "server") /\ UNCHANGED <<phone, ghosts>>
\* companionToken generates on read.
Generate ==
    IF token # None THEN UNCHANGED <<token, minted>>
    ELSE minted < MaxTokens /\ minted' = minted + 1 /\ token' = minted + 1
\* What was sent to the companion has not arrived.
Unreached == flaky /\ UNCHANGED <<token, minted>>
\* The settings screen shows the token; its owner pastes it, something else, or nothing.
TokenByPrompt ==
    /\ run.pc = "token" /\ run.cfg.token = None /\ (~Readable \/ flaky)
    /\ Generate \/ Unreached
    /\ \/ /\ token' # None /\ Save([run.cfg EXCEPT !.token = token'], "server")
          /\ UNCHANGED <<broken, calm>>
       \/ /\ Save([run.cfg EXCEPT !.token = Wrong], "server") /\ broken' = TRUE /\ calm' = FALSE
       \/ Finish("token") /\ calm' = FALSE /\ UNCHANGED <<disk, broken>>
    /\ UNCHANGED <<package, enabled, server, runs, upsets, touched, misread, fits>>

Listens == server = 0
Recorded == Save([run.cfg EXCEPT !.port = TRUE], "verify")
ServerSkipped ==
    /\ run.pc = "server" /\ Listens /\ Recorded /\ UNCHANGED <<phone, ghosts>>
\* The broadcast START_SERVICE: LifecycleReceiver ignores it unless it carries the
\* companion's token, which it generates when there is none.
StartServer ==
    /\ run.pc = "server" /\ (~Listens \/ flaky)
    /\ IF ~run.agree THEN Finish("declined") /\ UNCHANGED <<token, minted, server>>
       ELSE /\ run' = [run EXCEPT !.pc = "poll", !.polls = 0]
            /\ \/ /\ Generate
                  /\ server' = IF token' = run.cfg.token /\ server = Down THEN Delay ELSE server
               \/ Unreached /\ UNCHANGED server
    /\ UNCHANGED <<package, enabled, disk, ghosts>>
\* Mutant: the loop ends an attempt early.
LastPollEarly == run.polls + 2 >= Attempts
LastPoll == run.polls + 1 = Attempts
Poll ==
    /\ run.pc = "poll"
    /\ \/ Listens /\ Recorded
       \/ /\ ~Listens \/ flaky
          /\ IF LastPoll THEN Finish("server") ELSE run' = [run EXCEPT !.polls = @ + 1]
          /\ UNCHANGED disk
    \* sleep(1)
    /\ server' = IF server \in 1..Delay THEN server - 1 ELSE server
    /\ UNCHANGED <<package, token, minted, enabled, ghosts>>
\* trust.negotiate: an authenticated handshake.
Verify ==
    /\ run.pc = "verify"
    /\ Finish(IF Listens /\ run.cfg.token = token THEN "ok" ELSE "verify")
    /\ UNCHANGED <<phone, disk, ghosts>>

(* ------------------------- everything around it -------------------------- *)

Upset == upsets < MaxUpsets /\ upsets' = upsets + 1 /\ calm' = FALSE
\* Ctrl-C, or the terminal is closed.
Interrupt ==
    /\ Upset /\ run.pc # "idle" /\ Finish("interrupted")
    /\ UNCHANGED <<phone, disk, runs, touched, misread, fits, broken>>
\* Android ends the companion's process; a sticky service comes back.
ServerDies ==
    /\ Upset /\ server # Down /\ server' \in {Delay, Down}
    /\ UNCHANGED <<package, token, minted, enabled, disk, run, runs, touched, misread, fits, broken>>
\* The owner clears the app's data.
ClearData ==
    /\ Upset /\ package # None /\ token' = None /\ server' = Down
    /\ broken' = (broken \/ disk.token # None \/ run.cfg.token # None)
    /\ UNCHANGED <<package, minted, enabled, disk, run, runs, touched, misread, fits>>
\* The owner switches the other service.
SwitchOther ==
    /\ Upset /\ touched' = TRUE
    /\ enabled' = IF "other" \in enabled THEN enabled \ {"other"} ELSE enabled \cup {"other"}
    /\ UNCHANGED <<package, token, minted, server, disk, run, runs, misread, fits, broken>>
\* The owner pairs by hand: droidjig config set companion_token.
ConfigSet ==
    /\ Upset /\ token # None /\ disk' = [disk EXCEPT !.token = token]
    /\ broken' = (run.pc # "idle" /\ run.cfg.token \notin {None, token})
    /\ UNCHANGED <<phone, run, runs, touched, misread, fits>>

\* The link to the phone fails, and is back.
LinkFails ==
    /\ Upset /\ ~flaky /\ flaky' = TRUE
    /\ UNCHANGED <<phone, disk, run, runs, touched, misread, fits, broken>>
LinkReturns == flaky /\ flaky' = FALSE /\ UNCHANGED <<phone, disk, run, ghosts>>

SetupStep ==
    \/ InstallSkipped \/ Install \/ Uninstall \/ Reinstall
    \/ AccessSkipped \/ ReadAccess \/ PutAccess
    \/ TokenSkipped \/ TokenByRunAs \/ TokenByPrompt
    \/ ServerSkipped \/ StartServer \/ Poll \/ Verify
Next ==
    \/ /\ \/ \E apk \in Builds, agree \in BOOLEAN : Start(apk, agree)
          \/ SetupStep
          \/ Interrupt \/ ServerDies \/ ClearData \/ SwitchOther \/ ConfigSet
       /\ UNCHANGED flaky
    \/ LinkFails \/ LinkReturns
Spec == Init /\ [][Next]_vars

-----------------------------------------------------------------------------
\* Whatever earlier runs have left behind, a run whose owner agrees and pastes what
\* the screen shows, and during which nothing else happens, brings the companion
\* up: it fails only when adb cannot install, or when the host has kept a token that
\* is not the companion's any more.  And an ok is true: the server listens, the
\* service is on, the next command finds the port and the token the handshake was
\* made with, and the package is the APK that was asked for, unless the hash on
\* file was of another build than the phone's.
RerunsRepair ==
    run.pc = "idle" /\ run.result # "none" /\ run.agree /\ calm =>
        /\ ~broken => run.result \in {"ok", "install"}
        /\ run.result = "ok" =>
            /\ disk.port /\ disk.token = token /\ Listens /\ "companion" \in enabled
            /\ fits => package = run.apk

\* No step of the command switches another accessibility service on or off, unless
\* that was switched between the reading of the setting and its writing, or the
\* reading failed (a failure the code does not see: ExistingPreserved).
OthersStayOn ==
    [][run' # run /\ ~touched /\ ~misread =>
        ("other" \in enabled' <=> "other" \in enabled)]_vars

-----------------------------------------------------------------------------
(* What is said of the command and does not hold.                          *)

\* tests/test_companion_setup.py, "existing entry preserved", and docs/providers.md,
\* "re-running it is safe": another service that is on and that nobody has touched
\* since the setting was read stays on, whatever becomes of the adb calls.
ExistingPreserved ==
    [][run' # run /\ ~touched /\ "other" \in enabled => "other" \in enabled']_vars

\* The startup design lets the install be skipped when the installed package has the
\* APK's hash: a run that nothing disturbs and that ends ok leaves the APK it was
\* given on the phone.
InstalledAsAsked ==
    run.pc = "idle" /\ run.result = "ok" /\ calm => package = run.apk
=============================================================================
