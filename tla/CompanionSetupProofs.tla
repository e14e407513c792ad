------------------------- MODULE CompanionSetupProofs -------------------------
(***************************************************************************)
(* Theorems about CompanionSetup, for all builds, numbers of polls and of   *)
(* tokens: a run that nobody disturbs repairs what earlier runs have left    *)
(* behind, and the other accessibility service stays as it is.               *)
(*                                                                         *)
(* TokenInv says what the three copies of the token have to do with each     *)
(* other as long as the host has not been left with an old one; ServerInv     *)
(* that an undisturbed run polls often enough, and what it has made sure of   *)
(* when it verifies; HashInv that a record which fitted the phone when the    *)
(* command started lets it skip no build but the one it was given.           *)
(***************************************************************************)
EXTENDS CompanionSetup, TLAPS

Places == {"idle", "install", "reinstall", "access", "put", "token", "server", "poll", "verify"}
Held == 0..MaxTokens \cup {None}
Records == [token : Held, sha : Builds \cup {None}, port : BOOLEAN]
Services == {"companion", "other"}
Results == {"none", "ok", "install", "declined", "token", "server", "verify", "interrupted"}
CommandRecords ==
    [pc : Places, apk : Builds \cup {None}, agree : BOOLEAN, cfg : Records,
     read : SUBSET Services, polls : 0..Attempts, result : Results]

Types ==
    /\ package \in Builds \cup {None}
    /\ token \in 1..MaxTokens \cup {None} /\ minted \in 0..MaxTokens
    /\ enabled \subseteq Services
    /\ server \in 0..Down
    /\ flaky \in BOOLEAN
    /\ disk \in Records
    /\ run \in CommandRecords
    /\ runs \in 0..MaxRuns /\ upsets \in 0..MaxUpsets
    /\ calm \in BOOLEAN /\ touched \in BOOLEAN /\ misread \in BOOLEAN
    /\ fits \in BOOLEAN /\ broken \in BOOLEAN

\* While the host's token is not known to be an old one, it is the companion's, in
\* the file and in the memory of the command; no step forgets it.
TokenInv ==
    /\ ~broken /\ disk.token # None => disk.token = token
    /\ ~broken /\ run.pc # "idle" /\ run.cfg.token # None => run.cfg.token = token
    /\ run.pc # "idle" /\ run.cfg.token # None => disk.token # None
    /\ run.pc \in {"server", "poll", "verify"} => run.cfg.token # None

\* In a run that nobody disturbs: every adb call is answered, the service is on before
\* the token is asked for, the server listens before the polls are over, and the
\* record is on disk when the handshake comes.
ServerInv ==
    calm => /\ ~flaky
            /\ run.pc \in {"token", "server", "poll", "verify"} => "companion" \in enabled
            /\ run.pc = "poll" /\ ~broken => server + run.polls <= Delay
            /\ run.pc = "verify" => Listens /\ disk = run.cfg /\ disk.port
            /\ RerunsRepair

PollInv == run.pc = "poll" => run.polls < Attempts

\* What was read of the setting is still true of the other service.
ReadInv == run.pc = "put" /\ ~touched /\ ~misread => ("other" \in run.read <=> "other" \in enabled)

\* The record is read where the package is there to be asked.
PackageInv ==
    /\ run.pc # "idle" => run.apk \in Builds
    /\ run.pc \in {"access", "put", "token", "server", "poll", "verify"} => package # None

\* The install is skipped, or done, with the APK of the command.
HashInv ==
    fits => /\ run.pc = "install" /\ package # None /\ run.cfg.sha # None => run.cfg.sha = package
            /\ run.pc \in {"access", "put", "token", "server", "poll", "verify"} => package = run.apk

-----------------------------------------------------------------------------
(* What the ways to go on do to the command's record.                       *)

LEMMA GotoRun ==
    ASSUME run \in CommandRecords, NEW pc \in Places, Goto(pc)
    PROVE  /\ run' \in CommandRecords
           /\ run'.pc = pc /\ run'.apk = run.apk /\ run'.agree = run.agree /\ run'.cfg = run.cfg
           /\ run'.read = run.read /\ run'.polls = run.polls /\ run'.result = run.result
BY DEF Goto, CommandRecords

LEMMA FinishRun ==
    ASSUME run \in CommandRecords, NEW result \in Results, Finish(result)
    PROVE  /\ run' \in CommandRecords
           /\ run'.pc = "idle" /\ run'.apk = run.apk /\ run'.agree = run.agree /\ run'.cfg = run.cfg
           /\ run'.read = run.read /\ run'.polls = run.polls /\ run'.result = result
BY DEF Finish, CommandRecords, Places

LEMMA WithRun ==
    ASSUME run \in CommandRecords, NEW cfg \in Records, NEW pc \in Places, With(cfg, pc)
    PROVE  /\ run' \in CommandRecords
           /\ run'.pc = pc /\ run'.apk = run.apk /\ run'.agree = run.agree /\ run'.cfg = cfg
           /\ run'.read = run.read /\ run'.polls = run.polls /\ run'.result = run.result
BY DEF With, CommandRecords

LEMMA RecordChanges ==
    ASSUME NEW cfg \in Records
    PROVE  /\ \A t \in Held : /\ [cfg EXCEPT !.token = t] \in Records
                              /\ [cfg EXCEPT !.token = t].token = t
           /\ \A b \in Builds \cup {None} : /\ [cfg EXCEPT !.sha = b] \in Records
                                            /\ [cfg EXCEPT !.sha = b].token = cfg.token
           /\ [cfg EXCEPT !.port = TRUE] \in Records
           /\ [cfg EXCEPT !.port = TRUE].token = cfg.token
           /\ [cfg EXCEPT !.port = TRUE].port = TRUE
BY DEF Records

LEMMA RunFields == run \in CommandRecords =>
               /\ run.pc \in Places /\ run.apk \in Builds \cup {None} /\ run.agree \in BOOLEAN
               /\ run.cfg \in Records /\ run.read \subseteq Services /\ run.polls \in 0..Attempts
               /\ run.result \in Results /\ run.cfg.token \in Held
BY DEF CommandRecords, Records

LEMMA StartRun ==
    ASSUME disk \in Records, NEW apk \in Builds, NEW agree \in BOOLEAN, Start(apk, agree)
    PROVE  /\ run' \in CommandRecords
           /\ run'.pc = "install" /\ run'.apk = apk /\ run'.agree = agree /\ run'.cfg = disk
           /\ run'.read = {} /\ run'.polls = 0 /\ run'.result = "none"
<1>1. 0 \in 0..Attempts BY SetupConstants
<1>2. run' = [NoRun EXCEPT !.pc = "install", !.apk = apk, !.agree = agree, !.cfg = disk]
  BY DEF Start
<1>3. QED BY <1>1, <1>2 DEF NoRun, CommandRecords, Places, Results

\* A token is made, or kept; one that was there is not replaced.
LEMMA GenerateToken ==
    ASSUME Types, Generate
    PROVE  /\ token' \in 1..MaxTokens /\ token' # None /\ minted' \in 0..MaxTokens
           /\ token # None => token' = token
BY SetupConstants DEF Types, Generate

-----------------------------------------------------------------------------
(* What each step of the command does to its record, and where it stops.    *)

\* What Installs, Uninstall and the like have in common.
RunKept == UNCHANGED <<run.apk, run.agree, run.read, run.polls>>

LEMMA InstallsRun ==
    ASSUME Types, Installs
    PROVE  /\ run' \in CommandRecords /\ RunKept
           /\ run'.pc = "access" /\ run'.cfg.token = run.cfg.token /\ run'.result = run.result
           /\ package' = run.apk /\ server' = Down
           /\ UNCHANGED <<token, minted, enabled, disk, ghosts>>
<1> DEFINE cfg == [run.cfg EXCEPT !.sha = run.apk]
<1>1. cfg \in Records /\ cfg.token = run.cfg.token BY RunFields, RecordChanges DEF Types
<1>2. With(cfg, "access") /\ "access" \in Places BY DEF Installs, Places
<1>3. run \in CommandRecords BY DEF Types
<1> HIDE DEF cfg
<1>4. QED BY <1>1, <1>2, <1>3, WithRun DEF Installs, RunKept

LEMMA RecordedRun ==
    ASSUME Types, Recorded
    PROVE  /\ run' \in CommandRecords /\ RunKept /\ run'.result = run.result
           /\ run'.pc = "verify" /\ run'.cfg.token = run.cfg.token /\ run'.cfg.port = TRUE
           /\ disk' = run'.cfg /\ disk' \in Records
<1> DEFINE cfg == [run.cfg EXCEPT !.port = TRUE]
<1>1. cfg \in Records /\ cfg.token = run.cfg.token /\ cfg.port = TRUE
  BY RunFields, RecordChanges DEF Types
<1>2. With(cfg, "verify") /\ disk' = cfg /\ "verify" \in Places BY DEF Recorded, Save, Places
<1>3. run \in CommandRecords BY DEF Types
<1> HIDE DEF cfg
<1>4. QED BY <1>1, <1>2, <1>3, WithRun DEF RunKept

LEMMA SavedToken ==
    ASSUME Types, NEW t \in Held, Save([run.cfg EXCEPT !.token = t], "server")
    PROVE  /\ run' \in CommandRecords /\ RunKept /\ run'.result = run.result
           /\ run'.pc = "server" /\ run'.cfg.token = t
           /\ disk' = run'.cfg /\ disk' \in Records
<1> DEFINE cfg == [run.cfg EXCEPT !.token = t]
<1>1. cfg \in Records /\ cfg.token = t
  BY RunFields, RecordChanges DEF Types
<1>2. With(cfg, "server") /\ disk' = cfg /\ "server" \in Places BY DEF Save, Places
<1>3. run \in CommandRecords BY DEF Types
<1> HIDE DEF cfg
<1>4. QED BY <1>1, <1>2, <1>3, WithRun DEF RunKept

\* TokenByPrompt: the token the companion has by then, a wrong one, or none.
LEMMA PromptRun ==
    ASSUME Types, TokenByPrompt
    PROVE  /\ run' \in CommandRecords /\ RunKept /\ disk' \in Records /\ broken' \in BOOLEAN
           /\ calm' \in BOOLEAN
           /\ token' \in 1..MaxTokens \cup {None} /\ minted' \in 0..MaxTokens
           /\ token # None => token' = token
           /\ \/ /\ token' # None
                 /\ run'.pc = "server" /\ run'.cfg.token = token' /\ disk' = run'.cfg
                 /\ run'.result = run.result /\ UNCHANGED <<broken, calm>>
              \/ /\ run'.pc = "server" /\ run'.cfg.token = Wrong /\ disk' = run'.cfg
                 /\ broken' = TRUE /\ calm' = FALSE
              \/ /\ run'.pc = "idle" /\ run'.cfg = run.cfg /\ calm' = FALSE
                 /\ UNCHANGED <<disk, broken>>
<1>1. /\ token' \in 1..MaxTokens \cup {None} /\ minted' \in 0..MaxTokens
      /\ token # None => token' = token
  <2>1. CASE Generate BY <2>1, GenerateToken
  <2>2. CASE Unreached BY <2>2 DEF Unreached, Types
  <2>3. QED BY <2>1, <2>2 DEF TokenByPrompt
<1>2. token' \in Held /\ Wrong \in Held
  <2>1. MaxTokens \in Nat BY SetupConstants
  <2>2. QED BY <1>1, <2>1 DEF Held, Wrong
<1>3. CASE /\ token' # None /\ Save([run.cfg EXCEPT !.token = token'], "server")
           /\ UNCHANGED <<broken, calm>>
  BY <1>1, <1>2, <1>3, SavedToken DEF Types
<1>4. CASE Save([run.cfg EXCEPT !.token = Wrong], "server") /\ broken' = TRUE /\ calm' = FALSE
  BY <1>1, <1>2, <1>4, SavedToken
<1>5. CASE Finish("token") /\ calm' = FALSE /\ UNCHANGED <<disk, broken>>
  <2>1. "token" \in Results BY DEF Results
  <2>2. QED BY <1>1, <1>5, <2>1, FinishRun DEF Types, RunKept
<1>6. QED BY <1>3, <1>4, <1>5 DEF TokenByPrompt

\* StartServer ends the run of an owner who declines, or begins to poll.
LEMMA StartServerRun ==
    ASSUME Types, StartServer
    PROVE  /\ run' \in CommandRecords /\ run'.cfg = run.cfg /\ run'.agree = run.agree
           /\ run'.apk = run.apk /\ run'.read = run.read
           /\ token' \in 1..MaxTokens \cup {None} /\ minted' \in 0..MaxTokens
           /\ server' \in 0..Down
           /\ token # None => token' = token
           /\ \/ run'.pc = "idle" /\ run'.result = "declined" /\ ~run.agree
              \/ /\ run'.pc = "poll" /\ run'.polls = 0 /\ run'.result = run.result
                 /\ ~flaky =>
                      server' = IF token' = run.cfg.token /\ server = Down THEN Delay ELSE server
<1>1. CASE ~run.agree
  <2>1. "declined" \in Results BY DEF Results
  <2>2. QED BY <1>1, <2>1, FinishRun DEF StartServer, Types
<1>2. CASE run.agree
  <2>1. 0 \in 0..Attempts /\ Delay \in 0..Down BY SetupConstants DEF Down
  <2>2. /\ run' = [run EXCEPT !.pc = "poll", !.polls = 0]
        /\ \/ /\ Generate
              /\ server' = IF token' = run.cfg.token /\ server = Down THEN Delay ELSE server
           \/ Unreached /\ UNCHANGED server
    BY <1>2 DEF StartServer
  <2>3. /\ run' \in CommandRecords /\ run'.cfg = run.cfg /\ run'.agree = run.agree
        /\ run'.apk = run.apk /\ run'.read = run.read /\ run'.result = run.result
        /\ run'.pc = "poll" /\ run'.polls = 0
    BY <2>1, <2>2 DEF CommandRecords, Places, Types
  <2>4. server' \in 0..Down BY <2>1, <2>2 DEF Types
  <2>5. CASE Generate /\ server' = IF token' = run.cfg.token /\ server = Down THEN Delay ELSE server
    BY <2>3, <2>4, <2>5, GenerateToken
  <2>6. CASE Unreached
    BY <2>3, <2>4, <2>6 DEF Unreached, Types
  <2>7. QED BY <2>2, <2>5, <2>6
<1>3. QED BY <1>1, <1>2, RunFields DEF Types

\* Poll finds the server, gives up at the last poll, or goes on; a second passes.
LEMMA PollRun ==
    ASSUME Types, PollInv, Poll
    PROVE  /\ run' \in CommandRecords /\ run'.agree = run.agree
           /\ run'.apk = run.apk /\ run'.read = run.read
           /\ disk' \in Records /\ server' \in 0..Down /\ run'.cfg.token = run.cfg.token
           /\ \/ /\ Listens /\ run'.pc = "verify" /\ run'.cfg.port = TRUE /\ disk' = run'.cfg
                 /\ server' = server
              \/ /\ ~Listens \/ flaky
                 /\ run.polls + 1 = Attempts /\ run'.pc = "idle"
                 /\ run'.result = "server" /\ UNCHANGED disk
              \/ /\ ~Listens \/ flaky
                 /\ run.polls + 1 < Attempts /\ run'.pc = "poll"
                 /\ run'.polls = run.polls + 1 /\ UNCHANGED disk
                 /\ server' = IF server \in 1..Delay THEN server - 1 ELSE server
<1>1. server' \in 0..Down /\ (Listens => server' = server)
  BY SetupConstants DEF Types, Poll, Down, Listens
<1>2. CASE Listens /\ Recorded
  BY <1>1, <1>2, RecordedRun DEF RunKept
<1>3. CASE (~Listens \/ flaky) /\ LastPoll /\ Finish("server") /\ UNCHANGED disk
  <2>1. "server" \in Results BY DEF Results
  <2>2. QED BY <1>1, <1>3, <2>1, FinishRun DEF Types, LastPoll
<1>4. CASE /\ ~Listens \/ flaky
           /\ ~LastPoll /\ run' = [run EXCEPT !.polls = @ + 1] /\ UNCHANGED disk
  <2>1. run' = [run EXCEPT !.polls = @ + 1] /\ disk' = disk /\ run.pc = "poll"
    BY <1>4 DEF Poll
  <2>2. run.polls + 1 < Attempts /\ run.polls + 1 \in 0..Attempts
    BY <1>4, <2>1, SetupConstants, RunFields DEF Types, PollInv, LastPoll
  <2>3. /\ run' \in CommandRecords /\ run'.cfg = run.cfg /\ run'.agree = run.agree
        /\ run'.apk = run.apk /\ run'.read = run.read /\ run'.result = run.result
        /\ run'.pc = "poll" /\ run'.polls = run.polls + 1
    BY <2>1, <2>2 DEF CommandRecords, Types
  <2>4. server' = IF server \in 1..Delay THEN server - 1 ELSE server BY DEF Poll
  <2>5. QED BY <1>1, <1>4, <2>1, <2>2, <2>3, <2>4 DEF Types
<1>5. QED BY <1>2, <1>3, <1>4 DEF Poll

-----------------------------------------------------------------------------
(* Every step keeps the invariant.                                          *)

IInv == Types /\ TokenInv /\ ServerInv /\ PollInv /\ ReadInv /\ PackageInv /\ HashInv

LEMMA InitKeeps == Init => IInv
<1> SUFFICES ASSUME Init PROVE IInv
  OBVIOUS
<1>1. disk \in Records /\ disk.token = None /\ run = NoRun BY DEF Init, NoRun, Records, Held
<1>2. run \in CommandRecords /\ run.pc = "idle" /\ run.result = "none"
  <2>1. 0 \in 0..Attempts BY SetupConstants
  <2>2. NoRun.cfg \in Records BY DEF NoRun, Records, Held
  <2>3. QED BY <1>1, <2>1, <2>2 DEF NoRun, CommandRecords, Places, Results
<1>3. /\ 0 \in 0..MaxTokens /\ 0 \in 0..MaxRuns /\ 0 \in 0..MaxUpsets /\ Down \in 0..Down
  BY SetupConstants DEF Down
<1>4. Types BY <1>1, <1>2, <1>3 DEF Init, Types, Services
<1>5. QED
  BY <1>1, <1>2, <1>4
     DEF Init, IInv, TokenInv, ServerInv, PollInv, ReadInv, PackageInv, HashInv, RerunsRepair

LEMMA StartKeeps ==
    ASSUME IInv, UNCHANGED flaky, NEW apk \in Builds, NEW agree \in BOOLEAN, Start(apk, agree)
    PROVE  IInv'
<1>1. /\ run' \in CommandRecords
      /\ run'.pc = "install" /\ run'.apk = apk /\ run'.cfg = disk /\ run'.result = "none"
  BY StartRun DEF IInv, Types
<1>2. runs' \in 0..MaxRuns BY SetupConstants DEF Start, IInv, Types
<1>3. /\ UNCHANGED <<phone, disk, upsets, broken>>
      /\ calm' = ~flaky /\ touched' = FALSE /\ misread' = FALSE
      /\ fits' = (package # None => disk.sha \in {None, package})
  BY DEF Start
<1>4. Types' BY <1>1, <1>2, <1>3 DEF IInv, Types, phone
<1>5. TokenInv' BY <1>1, <1>3 DEF IInv, TokenInv, phone
<1>6. HashInv' BY <1>1, <1>3 DEF HashInv, phone
<1>7. ServerInv' BY <1>1, <1>3 DEF ServerInv, RerunsRepair
<1>8. QED BY <1>1, <1>4, <1>5, <1>6, <1>7 DEF IInv, PollInv, ReadInv, PackageInv

\* A step that has nothing to do.
LEMMA SkipKeeps ==
    ASSUME IInv, UNCHANGED flaky, NEW pc \in {"access", "token", "server"}, Goto(pc),
           run.pc \in {"install", "access", "token"}, UNCHANGED <<phone, disk, ghosts>>,
           pc = "access" => Current, pc # "access" => run.pc # "install",
           pc = "token" => "companion" \in enabled,
           pc = "server" => run.pc = "token" /\ run.cfg.token # None
    PROVE  IInv'
<1>1. /\ run' \in CommandRecords
      /\ run'.pc = pc /\ run'.apk = run.apk /\ run'.cfg = run.cfg
  BY GotoRun DEF IInv, Types, Places
<1>2. Types' BY <1>1 DEF IInv, Types, phone, ghosts
<1>3. TokenInv' BY <1>1 DEF IInv, TokenInv, phone, ghosts
<1>4. PackageInv' BY <1>1 DEF IInv, PackageInv, Current, phone
<1>5. HashInv' BY <1>1, SetupConstants DEF IInv, HashInv, PackageInv, Current, phone, ghosts
<1>6. ServerInv' BY <1>1 DEF IInv, ServerInv, RerunsRepair, phone, ghosts
<1>7. QED BY <1>1, <1>2, <1>3, <1>4, <1>5, <1>6 DEF IInv, PollInv, ReadInv

LEMMA InstallsKeeps ==
    ASSUME IInv, UNCHANGED flaky, Installs, run.pc \in {"install", "reinstall"}
    PROVE  IInv'
<1>1. /\ run' \in CommandRecords
      /\ run'.pc = "access" /\ run'.cfg.token = run.cfg.token /\ run'.apk = run.apk
      /\ package' = run.apk /\ server' = Down
      /\ UNCHANGED <<token, minted, enabled, disk, ghosts>>
  BY InstallsRun DEF IInv, RunKept
<1>2. run.apk \in Builds /\ run.apk # None BY SetupConstants DEF IInv, PackageInv
<1>3. Down \in 0..Down BY SetupConstants DEF Down
<1>4. Types' BY <1>1, <1>2, <1>3 DEF IInv, Types, ghosts
<1>5. TokenInv' BY <1>1 DEF IInv, TokenInv, ghosts
<1>6. PackageInv' BY <1>1, <1>2 DEF PackageInv
<1>7. HashInv' BY <1>1 DEF HashInv
<1>8. ServerInv' BY <1>1 DEF IInv, ServerInv, RerunsRepair, ghosts
<1>9. QED BY <1>1, <1>4, <1>5, <1>6, <1>7, <1>8 DEF IInv, PollInv, ReadInv

\* A run ends with a result that the invariant lets it have.
LEMMA FinishKeeps ==
    ASSUME IInv, UNCHANGED flaky, NEW result \in Results, Finish(result), run.pc # "idle",
           UNCHANGED <<token, disk, broken>>, Types',
           calm' => /\ result = "install" \/ ~run.agree \/ broken \/ result = "ok"
                    /\ result # "none" /\ ~flaky
                    /\ result = "ok" =>
                        /\ disk.port /\ disk.token = token /\ Listens'
                        /\ "companion" \in enabled' /\ (fits' => package' = run.apk)
    PROVE  IInv'
<1>1. /\ run' \in CommandRecords
      /\ run'.pc = "idle" /\ run'.agree = run.agree /\ run'.apk = run.apk
      /\ run'.result = result
  BY FinishRun DEF IInv, Types
<1>2. TokenInv' BY <1>1 DEF IInv, TokenInv
<1>3. ServerInv' BY <1>1 DEF ServerInv, RerunsRepair
<1>4. QED BY <1>1, <1>2, <1>3 DEF IInv, PollInv, ReadInv, PackageInv, HashInv

LEMMA InstallFailsKeeps ==
    ASSUME IInv, UNCHANGED flaky, InstallFails, run.pc \in {"install", "reinstall"}
    PROVE  IInv'
<1>1. Finish("install") /\ "install" \in Results /\ UNCHANGED <<phone, disk, ghosts>>
  BY DEF InstallFails, Results
<1>2. run' \in CommandRecords BY <1>1, FinishRun DEF IInv, Types
<1>3. Types' BY <1>1, <1>2 DEF IInv, Types, phone, ghosts
<1>4. calm => ~flaky BY DEF IInv, ServerInv
<1>5. QED BY <1>1, <1>3, <1>4, FinishKeeps DEF phone, ghosts

LEMMA InstallUnansweredKeeps ==
    ASSUME IInv, UNCHANGED flaky, InstallUnanswered, run.pc \in {"install", "reinstall"}
    PROVE  IInv'
<1>1. /\ flaky /\ package' = run.apk /\ server' = Down
      /\ Finish("install") /\ "install" \in Results
      /\ UNCHANGED <<token, minted, enabled, disk, ghosts>>
  BY DEF InstallUnanswered, Results
<1>2. run' \in CommandRecords BY <1>1, FinishRun DEF IInv, Types
<1>3. run.apk \in Builds /\ Down \in 0..Down BY SetupConstants DEF IInv, PackageInv, Down
<1>4. Types' BY <1>1, <1>2, <1>3 DEF IInv, Types, ghosts
<1>5. calm => ~flaky BY DEF IInv, ServerInv
<1>6. QED BY <1>1, <1>4, <1>5, FinishKeeps DEF ghosts

LEMMA UninstallKeeps ==
    ASSUME IInv, UNCHANGED flaky, Uninstall
    PROVE  IInv'
<1>1. "reinstall" \in Places /\ Goto("reinstall") BY DEF Places, Uninstall
<1>2. /\ run' \in CommandRecords
      /\ run'.pc = "reinstall" /\ run'.cfg = run.cfg /\ run'.apk = run.apk
  BY <1>1, GotoRun DEF IInv, Types
<1>3. /\ package' = None /\ token' = None /\ server' = Down /\ enabled' \subseteq enabled
      /\ broken' = (broken \/ disk.token # None)
      /\ UNCHANGED <<minted, disk, runs, upsets, calm, touched, misread, fits>>
      /\ run.pc = "install"
  BY DEF Uninstall, Wanted
<1>4. Down \in 0..Down BY SetupConstants DEF Down
<1>5. Types' BY <1>2, <1>3, <1>4 DEF IInv, Types
<1>6. TokenInv' BY <1>2, <1>3 DEF IInv, TokenInv
<1>7. PackageInv' BY <1>2, <1>3 DEF IInv, PackageInv
<1>8. ServerInv' BY <1>2, <1>3 DEF IInv, ServerInv, RerunsRepair
<1>9. QED BY <1>2, <1>5, <1>6, <1>7, <1>8 DEF IInv, PollInv, ReadInv, HashInv

LEMMA ReadAccessKeeps ==
    ASSUME IInv, UNCHANGED flaky, ReadAccess
    PROVE  IInv'
<1>1. UNCHANGED <<phone, disk, runs, upsets, calm, fits, broken>> /\ run.pc = "access"
  BY DEF ReadAccess
<1>2. PICK current \in Printed :
           IF run.agree
           THEN /\ run' = [run EXCEPT !.pc = "put", !.read = current]
                /\ touched' = FALSE /\ misread' = (current # enabled)
           ELSE Finish("declined") /\ UNCHANGED <<touched, misread>>
  BY DEF ReadAccess
<1>3. current \subseteq Services BY DEF Printed, IInv, Types
<1>4. CASE run.agree
  <2>1. /\ run' = [run EXCEPT !.pc = "put", !.read = current]
        /\ touched' = FALSE /\ misread' = (current # enabled)
    BY <1>2, <1>4
  <2>2. /\ run' \in CommandRecords
        /\ run'.pc = "put" /\ run'.cfg = run.cfg /\ run'.apk = run.apk /\ run'.read = current
    BY <2>1, <1>3 DEF IInv, Types, CommandRecords, Places
  <2>3. Types' BY <1>1, <2>1, <2>2 DEF IInv, Types, phone
  <2>4. TokenInv' BY <1>1, <2>2 DEF IInv, TokenInv, phone
  <2>5. ReadInv' BY <1>1, <2>1, <2>2 DEF ReadInv, phone
  <2>6. PackageInv' BY <1>1, <2>2 DEF IInv, PackageInv, phone
  <2>7. HashInv' BY <1>1, <2>2 DEF IInv, HashInv, phone
  <2>8. ServerInv' BY <1>1, <2>2 DEF IInv, ServerInv, RerunsRepair
  <2>9. QED BY <2>2, <2>3, <2>4, <2>5, <2>6, <2>7, <2>8 DEF IInv, PollInv
<1>5. CASE ~run.agree
  <2>1. Finish("declined") /\ "declined" \in Results /\ UNCHANGED <<touched, misread>>
    BY <1>2, <1>5 DEF Results
  <2>2. run' \in CommandRecords BY <2>1, FinishRun DEF IInv, Types
  <2>3. Types' BY <1>1, <2>1, <2>2 DEF IInv, Types, phone
  <2>4. calm => ~flaky BY DEF IInv, ServerInv
  <2>5. QED BY <1>1, <1>5, <2>1, <2>3, <2>4, FinishKeeps DEF phone
<1>6. QED BY <1>4, <1>5

LEMMA PutAccessKeeps ==
    ASSUME IInv, UNCHANGED flaky, PutAccess
    PROVE  IInv'
<1>1. /\ UNCHANGED <<package, token, minted, server, disk, ghosts>> /\ run.pc = "put"
      /\ \/ enabled' = run.read \cup {"companion"}
         \/ flaky /\ enabled' = enabled
      /\ Goto("token") /\ "token" \in Places
  BY DEF PutAccess, Appended, Places
<1>2. /\ run' \in CommandRecords
      /\ run'.pc = "token" /\ run'.cfg = run.cfg /\ run'.apk = run.apk
  BY <1>1, GotoRun DEF IInv, Types
<1>3. enabled' \subseteq Services BY <1>1, RunFields DEF IInv, Types, Services
<1>4. Types' BY <1>1, <1>2, <1>3 DEF IInv, Types, ghosts
<1>5. TokenInv' BY <1>1, <1>2 DEF IInv, TokenInv, ghosts
<1>6. PackageInv' BY <1>1, <1>2 DEF IInv, PackageInv
<1>7. HashInv' BY <1>1, <1>2 DEF IInv, HashInv, ghosts
<1>8. ServerInv' BY <1>1, <1>2 DEF IInv, ServerInv, RerunsRepair, ghosts
<1>9. QED BY <1>2, <1>4, <1>5, <1>6, <1>7, <1>8 DEF IInv, PollInv, ReadInv

LEMMA TokenByRunAsKeeps ==
    ASSUME IInv, UNCHANGED flaky, TokenByRunAs
    PROVE  IInv'
<1>1. /\ Save([run.cfg EXCEPT !.token = token], "server") /\ UNCHANGED <<phone, ghosts>>
      /\ run.pc = "token" /\ token # None
  BY DEF TokenByRunAs, Readable
<1>2. token \in Held BY DEF IInv, Types, Held
<1>3. /\ run' \in CommandRecords /\ run'.apk = run.apk
      /\ run'.pc = "server" /\ run'.cfg.token = token
      /\ disk' = run'.cfg /\ disk' \in Records
  BY <1>1, <1>2, SavedToken DEF IInv, RunKept
<1>4. Types' BY <1>1, <1>3 DEF IInv, Types, phone, ghosts
<1>5. TokenInv' BY <1>1, <1>3 DEF TokenInv, phone, ghosts
<1>6. PackageInv' BY <1>1, <1>3 DEF IInv, PackageInv, phone
<1>7. HashInv' BY <1>1, <1>3 DEF IInv, HashInv, phone, ghosts
<1>8. ServerInv' BY <1>1, <1>3 DEF IInv, ServerInv, RerunsRepair, phone, ghosts
<1>9. QED BY <1>3, <1>4, <1>5, <1>6, <1>7, <1>8 DEF IInv, PollInv, ReadInv

LEMMA TokenByPromptKeeps ==
    ASSUME IInv, UNCHANGED flaky, TokenByPrompt
    PROVE  IInv'
<1>1. /\ run' \in CommandRecords /\ disk' \in Records /\ broken' \in BOOLEAN
      /\ calm' \in BOOLEAN /\ run'.apk = run.apk
      /\ token' \in 1..MaxTokens \cup {None} /\ minted' \in 0..MaxTokens
      /\ token # None => token' = token
      /\ \/ /\ token' # None
            /\ run'.pc = "server" /\ run'.cfg.token = token' /\ disk' = run'.cfg
            /\ UNCHANGED <<broken, calm>>
         \/ /\ run'.pc = "server" /\ run'.cfg.token = Wrong /\ disk' = run'.cfg
            /\ broken' = TRUE /\ calm' = FALSE
         \/ /\ run'.pc = "idle" /\ run'.cfg = run.cfg /\ calm' = FALSE
            /\ UNCHANGED <<disk, broken>>
  BY PromptRun DEF IInv, RunKept
<1>2. /\ UNCHANGED <<package, enabled, server, runs, upsets, touched, misread, fits>>
      /\ run.pc = "token" /\ run.cfg.token = None
  BY DEF TokenByPrompt
<1>3. Types' BY <1>1, <1>2 DEF IInv, Types
<1>4. Wrong # None BY SetupConstants DEF Wrong
<1>5. TokenInv' BY <1>1, <1>2, <1>4 DEF IInv, TokenInv
<1>6. PackageInv' BY <1>1, <1>2 DEF IInv, PackageInv
<1>7. ServerInv' BY <1>1, <1>2 DEF IInv, ServerInv, RerunsRepair
<1>8. HashInv' BY <1>1, <1>2 DEF IInv, HashInv
<1>9. QED BY <1>1, <1>3, <1>5, <1>6, <1>7, <1>8 DEF IInv, PollInv, ReadInv

\* The server has been found listening, by the first look or by a poll.
LEMMA RecordedKeeps ==
    ASSUME IInv, UNCHANGED flaky, run.pc \in {"server", "poll"}, Listens,
           UNCHANGED <<phone, ghosts>>,
           run' \in CommandRecords, run'.apk = run.apk, run'.pc = "verify",
           run'.cfg.token = run.cfg.token, run'.cfg.port = TRUE,
           disk' = run'.cfg, disk' \in Records
    PROVE  IInv'
<1>1. Types' BY DEF IInv, Types, phone, ghosts
<1>2. TokenInv' BY DEF IInv, TokenInv, phone, ghosts
<1>3. ServerInv' BY DEF IInv, ServerInv, RerunsRepair, Listens, phone, ghosts
<1>4. PackageInv' BY DEF IInv, PackageInv, phone
<1>5. HashInv' BY DEF IInv, HashInv, phone, ghosts
<1>6. QED BY <1>1, <1>2, <1>3, <1>4, <1>5 DEF IInv, PollInv, ReadInv

LEMMA StartServerKeeps ==
    ASSUME IInv, UNCHANGED flaky, StartServer
    PROVE  IInv'
<1>1. /\ run' \in CommandRecords /\ run'.cfg = run.cfg /\ run'.agree = run.agree
      /\ run'.apk = run.apk
      /\ token' \in 1..MaxTokens \cup {None} /\ minted' \in 0..MaxTokens
      /\ server' \in 0..Down
      /\ token # None => token' = token
      /\ \/ run'.pc = "idle" /\ run'.result = "declined" /\ ~run.agree
         \/ /\ run'.pc = "poll" /\ run'.polls = 0
            /\ ~flaky =>
                 server' = IF token' = run.cfg.token /\ server = Down THEN Delay ELSE server
  BY StartServerRun DEF IInv
<1>2. UNCHANGED <<package, enabled, disk, ghosts>> /\ run.pc = "server" /\ (~Listens \/ flaky)
  BY DEF StartServer
<1>3. Types' BY <1>1, <1>2 DEF IInv, Types, ghosts
<1>4. TokenInv' BY <1>1, <1>2 DEF IInv, TokenInv, ghosts
<1>5. PackageInv' BY <1>1, <1>2 DEF IInv, PackageInv
\* The host's token is the companion's: the broadcast starts the server.
<1>6. ~broken => token' = run.cfg.token BY <1>1, <1>2 DEF IInv, TokenInv
<1>7. run'.pc = "poll" /\ ~broken /\ ~flaky => server' + run'.polls <= Delay
  BY <1>1, <1>6, SetupConstants DEF IInv, Types, Down
<1>8. ServerInv' BY <1>1, <1>2, <1>7 DEF IInv, ServerInv, RerunsRepair, ghosts
<1>9. PollInv' BY <1>1, SetupConstants DEF PollInv
<1>10. HashInv' BY <1>1, <1>2 DEF IInv, HashInv, ghosts
<1>11. QED BY <1>1, <1>3, <1>4, <1>5, <1>8, <1>9, <1>10 DEF IInv, ReadInv

LEMMA PollKeeps ==
    ASSUME IInv, UNCHANGED flaky, Poll
    PROVE  IInv'
<1>1. /\ run' \in CommandRecords /\ run'.agree = run.agree /\ run'.apk = run.apk
      /\ disk' \in Records /\ server' \in 0..Down /\ run'.cfg.token = run.cfg.token
      /\ \/ /\ Listens /\ run'.pc = "verify" /\ run'.cfg.port = TRUE /\ disk' = run'.cfg
            /\ server' = server
         \/ /\ ~Listens \/ flaky
            /\ run.polls + 1 = Attempts /\ run'.pc = "idle"
            /\ run'.result = "server" /\ UNCHANGED disk
         \/ /\ ~Listens \/ flaky
            /\ run.polls + 1 < Attempts /\ run'.pc = "poll"
            /\ run'.polls = run.polls + 1 /\ UNCHANGED disk
            /\ server' = IF server \in 1..Delay THEN server - 1 ELSE server
  BY PollRun DEF IInv
<1>2. UNCHANGED <<package, token, minted, enabled, ghosts>> /\ run.pc = "poll" BY DEF Poll
<1>3. CASE /\ Listens /\ run'.pc = "verify" /\ run'.cfg.port = TRUE /\ disk' = run'.cfg
           /\ server' = server
  BY <1>1, <1>2, <1>3, RecordedKeeps DEF phone
<1>4. CASE ~(Listens /\ run'.pc = "verify")
  <2>1. Types' BY <1>1, <1>2 DEF IInv, Types, ghosts
  <2>2. TokenInv' BY <1>1, <1>2, <1>4 DEF IInv, TokenInv, ghosts
  <2>3. PackageInv' BY <1>1, <1>2, <1>4 DEF IInv, PackageInv
  <2>4. server \in Nat /\ run.polls \in Nat /\ (calm => ~flaky)
    BY RunFields, SetupConstants DEF IInv, Types, Down, ServerInv
  \* An undisturbed run is not at its last poll when the server is still coming up.
  <2>5. calm /\ ~broken => server + run.polls <= Delay BY <1>2 DEF IInv, ServerInv
  <2>6. calm => server # 0 BY <1>1, <1>4, <2>4 DEF Listens
  <2>7. calm /\ ~broken => run.polls + 1 # Attempts BY <2>4, <2>5, <2>6, SetupConstants
  <2>8. calm /\ ~broken => server' + run'.polls <= Delay
    BY <1>1, <1>4, <2>4, <2>5, <2>6, <2>7, SetupConstants
  <2>9. ServerInv'
    BY <1>1, <1>2, <1>4, <2>7, <2>8 DEF IInv, ServerInv, RerunsRepair, ghosts
  <2>10. PollInv' BY <1>1, <1>4 DEF PollInv
  <2>11. HashInv' BY <1>1, <1>2, <1>4 DEF IInv, HashInv, ghosts
  <2>12. QED BY <1>1, <1>4, <2>1, <2>2, <2>3, <2>9, <2>10, <2>11 DEF IInv, ReadInv
<1>5. QED BY <1>1, <1>3, <1>4

LEMMA VerifyKeeps ==
    ASSUME IInv, UNCHANGED flaky, Verify
    PROVE  IInv'
<1> DEFINE result == IF Listens /\ run.cfg.token = token THEN "ok" ELSE "verify"
<1>1. Finish(result) /\ UNCHANGED <<phone, disk, ghosts>> /\ run.pc = "verify" BY DEF Verify
<1>2. result \in Results BY DEF Results
<1>3. run' \in CommandRecords BY <1>1, <1>2, FinishRun DEF IInv, Types
<1>4. Types' BY <1>1, <1>3 DEF IInv, Types, phone, ghosts
<1>5. calm => ~flaky /\ Listens /\ disk = run.cfg /\ disk.port /\ "companion" \in enabled
  BY <1>1 DEF IInv, ServerInv
<1>6. ~broken => run.cfg.token = token BY <1>1 DEF IInv, TokenInv
<1>7. calm => /\ result = "install" \/ ~run.agree \/ broken \/ result = "ok"
              /\ result # "none" /\ ~flaky
              /\ result = "ok" => disk.port /\ disk.token = token /\ Listens'
  BY <1>1, <1>5, <1>6 DEF Listens, phone
<1>8. "companion" \in enabled' <=> "companion" \in enabled BY <1>1 DEF phone
<1>9. fits' => package' = run.apk BY <1>1 DEF IInv, HashInv, phone, ghosts
<1> HIDE DEF result
<1>10. QED BY <1>1, <1>2, <1>4, <1>5, <1>7, <1>8, <1>9, FinishKeeps DEF phone, ghosts

LEMMA SetupKeeps ==
    ASSUME IInv, UNCHANGED flaky, SetupStep
    PROVE  IInv'
<1>1. CASE InstallSkipped BY <1>1, SkipKeeps DEF InstallSkipped
<1>2. CASE Install
  BY <1>2, InstallsKeeps, InstallFailsKeeps, InstallUnansweredKeeps DEF Install, Wanted
<1>3. CASE Uninstall BY <1>3, UninstallKeeps
<1>4. CASE Reinstall
  BY <1>4, InstallsKeeps, InstallFailsKeeps, InstallUnansweredKeeps DEF Reinstall
<1>5. CASE AccessSkipped BY <1>5, SkipKeeps DEF AccessSkipped
<1>6. CASE ReadAccess BY <1>6, ReadAccessKeeps
<1>7. CASE PutAccess BY <1>7, PutAccessKeeps
<1>8. CASE TokenSkipped BY <1>8, SkipKeeps DEF TokenSkipped
<1>9. CASE TokenByRunAs BY <1>9, TokenByRunAsKeeps
<1>10. CASE TokenByPrompt BY <1>10, TokenByPromptKeeps
<1>11. CASE ServerSkipped
  BY <1>11, RecordedRun, RecordedKeeps DEF ServerSkipped, IInv, RunKept
<1>12. CASE StartServer BY <1>12, StartServerKeeps
<1>13. CASE Poll BY <1>13, PollKeeps
<1>14. CASE Verify BY <1>14, VerifyKeeps
<1>15. QED
  BY <1>1, <1>2, <1>3, <1>4, <1>5, <1>6, <1>7, <1>8, <1>9, <1>10, <1>11, <1>12, <1>13, <1>14
     DEF SetupStep

-----------------------------------------------------------------------------
(* What happens around the command.                                        *)

\* An upset leaves the command where it is and ends its calm.
LEMMA UpsetKeeps ==
    ASSUME IInv, Upset, UNCHANGED <<run, minted, runs>>,
           UNCHANGED package,
           token' \in 1..MaxTokens \cup {None}, enabled' \subseteq Services, server' \in 0..Down,
           flaky' \in BOOLEAN, disk' \in Records, touched' \in BOOLEAN, broken' \in BOOLEAN,
           UNCHANGED <<misread, fits>>,
           TokenInv', ReadInv'
    PROVE  IInv'
<1>1. upsets' \in 0..MaxUpsets BY SetupConstants DEF Upset, IInv, Types
<1>2. calm' = FALSE BY DEF Upset
<1>3. Types' BY <1>1, <1>2 DEF IInv, Types
<1>4. QED BY <1>2, <1>3 DEF IInv, ServerInv, PollInv, PackageInv, HashInv

LEMMA InterruptKeeps ==
    ASSUME IInv, UNCHANGED flaky, Interrupt
    PROVE  IInv'
<1>1. /\ Finish("interrupted") /\ "interrupted" \in Results /\ run.pc # "idle" /\ calm' = FALSE
      /\ UNCHANGED <<phone, disk, runs, touched, misread, fits, broken>>
  BY DEF Interrupt, Upset, Results
<1>2. upsets' \in 0..MaxUpsets BY SetupConstants DEF Interrupt, Upset, IInv, Types
<1>3. run' \in CommandRecords BY <1>1, FinishRun DEF IInv, Types
<1>4. Types' BY <1>1, <1>2, <1>3 DEF IInv, Types, phone
<1>5. QED BY <1>1, <1>4, FinishKeeps DEF phone

LEMMA ServerDiesKeeps ==
    ASSUME IInv, UNCHANGED flaky, ServerDies
    PROVE  IInv'
<1>1. /\ Upset /\ server' \in {Delay, Down}
      /\ UNCHANGED <<package, token, minted, enabled, disk, run, runs, touched, misread, fits, broken>>
  BY DEF ServerDies
<1>2. Delay \in 0..Down /\ Down \in 0..Down BY SetupConstants DEF Down
<1>3. TokenInv' /\ ReadInv' BY <1>1 DEF IInv, TokenInv, ReadInv
<1>4. server' \in 0..Down BY <1>1, <1>2
<1>5. QED BY <1>1, <1>3, <1>4, UpsetKeeps DEF IInv, Types

LEMMA ClearDataKeeps ==
    ASSUME IInv, UNCHANGED flaky, ClearData
    PROVE  IInv'
<1>1. /\ Upset /\ token' = None /\ server' = Down
      /\ broken' = (broken \/ disk.token # None \/ run.cfg.token # None)
      /\ UNCHANGED <<package, minted, enabled, disk, run, runs, touched, misread, fits>>
  BY DEF ClearData
<1>2. Down \in 0..Down BY SetupConstants DEF Down
<1>3. TokenInv' /\ ReadInv' BY <1>1 DEF IInv, TokenInv, ReadInv
<1>4. broken' \in BOOLEAN BY <1>1 DEF IInv, Types
<1>5. QED BY <1>1, <1>2, <1>3, <1>4, UpsetKeeps DEF IInv, Types

LEMMA SwitchOtherKeeps ==
    ASSUME IInv, UNCHANGED flaky, SwitchOther
    PROVE  IInv'
<1>1. /\ Upset /\ touched' = TRUE
      /\ UNCHANGED <<package, token, minted, server, disk, run, runs, misread, fits, broken>>
  BY DEF SwitchOther
<1>2. enabled' \subseteq Services BY DEF SwitchOther, IInv, Types, Services
<1>3. TokenInv' /\ ReadInv' BY <1>1 DEF IInv, TokenInv, ReadInv
<1>4. QED BY <1>1, <1>2, <1>3, UpsetKeeps DEF IInv, Types

LEMMA ConfigSetKeeps ==
    ASSUME IInv, UNCHANGED flaky, ConfigSet
    PROVE  IInv'
<1>1. /\ Upset /\ token # None /\ disk' = [disk EXCEPT !.token = token]
      /\ broken' = (run.pc # "idle" /\ run.cfg.token \notin {None, token})
      /\ UNCHANGED <<phone, run, runs, touched, misread, fits>>
  BY DEF ConfigSet
<1>2. token \in Held BY DEF IInv, Types, Held
<1>3. disk' \in Records /\ disk'.token = token
  BY <1>1, <1>2, RecordChanges DEF IInv, Types
<1>4. TokenInv' BY <1>1, <1>3 DEF IInv, TokenInv, phone
<1>5. ReadInv' BY <1>1 DEF IInv, ReadInv, phone
<1>6. broken' \in BOOLEAN BY <1>1
<1>7. QED BY <1>1, <1>3, <1>4, <1>5, <1>6, UpsetKeeps DEF IInv, Types, phone

LEMMA LinkFailsKeeps ==
    ASSUME IInv, LinkFails
    PROVE  IInv'
<1>1. /\ Upset /\ flaky' = TRUE
      /\ UNCHANGED <<phone, disk, run, runs, touched, misread, fits, broken>>
  BY DEF LinkFails
<1>2. TokenInv' /\ ReadInv' BY <1>1 DEF IInv, TokenInv, ReadInv, phone
<1>3. QED BY <1>1, <1>2, UpsetKeeps DEF IInv, Types, phone

LEMMA LinkReturnsKeeps ==
    ASSUME IInv, LinkReturns
    PROVE  IInv'
<1>1. flaky' = FALSE /\ UNCHANGED <<phone, disk, run, ghosts>> BY DEF LinkReturns
<1>2. Types' BY <1>1 DEF IInv, Types, phone, ghosts
<1>3. ServerInv' BY <1>1 DEF IInv, ServerInv, RerunsRepair, Listens, phone, ghosts
<1>4. QED
  BY <1>1, <1>2, <1>3 DEF IInv, TokenInv, PollInv, ReadInv, PackageInv, HashInv, phone, ghosts

LEMMA StutterKeeps ==
    ASSUME IInv, UNCHANGED vars
    PROVE  IInv'
<1>1. UNCHANGED <<phone, flaky, disk, run, ghosts>> BY DEF vars
<1>2. Types' BY <1>1 DEF IInv, Types, phone, ghosts
<1>3. ServerInv' BY <1>1 DEF IInv, ServerInv, RerunsRepair, Listens, phone, ghosts
<1>4. QED
  BY <1>1, <1>2, <1>3 DEF IInv, TokenInv, PollInv, ReadInv, PackageInv, HashInv, phone, ghosts

THEOREM SetupInvariant == Spec => []IInv
<1>1. IInv /\ [Next]_vars => IInv'
  BY StartKeeps, SetupKeeps, InterruptKeeps, ServerDiesKeeps, ClearDataKeeps, SwitchOtherKeeps,
     ConfigSetKeeps, LinkFailsKeeps, LinkReturnsKeeps, StutterKeeps DEF Next
<1>2. QED BY <1>1, InitKeeps, PTL DEF Spec

-----------------------------------------------------------------------------
\* A run that nothing disturbs, whose owner agrees and pastes the token, repairs
\* whatever the runs before it have left, for any build and any number of polls that
\* covers the server's start; an ok result means what it says, down to the APK where
\* the hash on file was the package's.
THEOREM RerunsAlwaysRepair == Spec => []RerunsRepair
<1>1. IInv => RerunsRepair BY DEF IInv, ServerInv, RerunsRepair
<1>2. QED BY <1>1, SetupInvariant, PTL

\* No step of the command switches the other accessibility service on or off, over
\* whatever link, unless its owner has switched it since the setting was read, or the
\* reading itself has failed.
THEOREM OthersAlwaysStayOn == Spec => OthersStayOn
<1>1. ASSUME IInv, [Next]_vars, run' # run, ~touched, ~misread
      PROVE  "other" \in enabled' <=> "other" \in enabled
  <2>1. CASE PutAccess
    <3>1. \/ enabled' = run.read \cup {"companion"}
          \/ enabled' = enabled
      BY <2>1 DEF PutAccess, Appended
    <3>2. run.pc = "put" BY <2>1 DEF PutAccess
    <3>3. QED BY <1>1, <3>1, <3>2 DEF IInv, ReadInv
  <2>2. CASE \E apk \in Builds, agree \in BOOLEAN : Start(apk, agree)
    BY <2>2 DEF Start, phone
  <2>3. CASE SetupStep /\ ~PutAccess /\ ~Uninstall
    BY <2>3
       DEF SetupStep, InstallSkipped, Install, Installs, InstallFails, InstallUnanswered,
           Reinstall, AccessSkipped, ReadAccess, TokenSkipped, TokenByRunAs, TokenByPrompt,
           ServerSkipped, StartServer, Poll, Verify, phone
  <2>4. CASE Uninstall BY <2>4 DEF Uninstall
  <2>5. CASE Interrupt BY <2>5 DEF Interrupt, phone
  <2>6. CASE ServerDies \/ ClearData \/ SwitchOther \/ ConfigSet \/ LinkFails \/ LinkReturns
    BY <1>1, <2>6 DEF ServerDies, ClearData, SwitchOther, ConfigSet, LinkFails, LinkReturns
  <2>7. CASE UNCHANGED vars BY <1>1, <2>7 DEF vars
  <2>8. QED BY <1>1, <2>1, <2>2, <2>3, <2>4, <2>5, <2>6, <2>7 DEF Next
<1>2. QED BY <1>1, SetupInvariant, PTL DEF Spec, OthersStayOn
=============================================================================
