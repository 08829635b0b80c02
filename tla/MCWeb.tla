---- MODULE MCWeb ----
(*****************************************************************************)
(* What the web server's handlers share, model-checked in one run: a         *)
(* behaviour is one of the part it is about, and the others do not move.     *)
(* The clients of the manager are the requests of the other parts.           *)
(*****************************************************************************)
EXTENDS ServiceManager, PrintHistory, TLC

CONSTANTS
    pppp, video,                                            \* the services
    Lists,                                                  \* ConfigStore
    Heights, Nudges, MaxMoves, MaxReports                   \* ZOffset

ASSUME OffsetAssumption == Heights \subseteq Int /\ Nudges \subseteq Int

VARIABLES
    part,      \* the part that moves
    file, kept, lock, request, told, up, login, boot, session,
    height, moves, reports, online, reading, signal, stored, move, answer, alone, sole

MCServices == {pppp, video}
MCOrder == <<pppp, video>>
MCVideo == {video}

(* One account, with two printers. *)
MCLists == {<<"q", "p">>}

MCNudges == {1, -1}

Config == INSTANCE ConfigStore WITH Requests <- Clients
Offset == INSTANCE ZOffset WITH Requests <- Clients, request <- move

(* A request is a goroutine, and "none" says that there is none. *)
ASSUME RequestAssumption == Config!None \notin Clients

configVars == <<file, kept, lock, request, told, up, login, boot, session>>
offsetVars == <<height, moves, reports, online, reading, signal, stored, move, answer, alone, sole>>
webVars == <<part, vars, historyVars, configVars, offsetVars>>

(* A part that does not move has one state only. *)
WebInit ==
    /\ Init /\ HistoryInit /\ Config!Init /\ Offset!Init
    /\ part \in {"manager", "history", "config", "offset"}
    /\ part # "config" => file = Config!Absent
    /\ part # "offset" => height = 0

Managed(A) == part = "manager" /\ A /\ UNCHANGED <<part, historyVars, configVars, offsetVars>>
Recorded(A) == part = "history" /\ A /\ UNCHANGED <<part, vars, configVars, offsetVars>>
Configured(A) == part = "config" /\ A /\ UNCHANGED <<part, vars, historyVars, offsetVars>>
Adjusted(A) == part = "offset" /\ A /\ UNCHANGED <<part, vars, historyVars, configVars>>

WebNext ==
    \/ Managed(Next) \/ Recorded(Calls)
    \/ Configured(Config!Next) \/ Adjusted(Offset!Next)

WebSpec == WebInit /\ [][WebNext]_webVars

(* Clients are alike: no action names one. *)
MCSymmetry == Permutations(Clients)

\* ConfigStore: a saved section survives the saves of others.
SettingsSurvive == Config!SettingsSurvive

\* ConfigStore: what was under way at a logout brings no account back.
LogoutIsFinal == Config!LogoutIsFinal

\* ZOffset: an answer is true, and no confirmation is slept through.
AnswerIsTrue == Offset!AnswerIsTrue

\* ConfigStore: the services connect to the printer that is active.
ServicesFollowSwitch == Config!ServicesFollowSwitch
====
