---- MODULE ConfigStore ----
(*****************************************************************************)
(* The configuration file (config/manager.go) and all who write it: the      *)
(* settings handlers, which read, change and write it under the manager's    *)
(* lock; login and import, which write a new one; logout, which deletes it;  *)
(* and the searches for the printer's address.  The server keeps a copy of   *)
(* some of it, and the services connect to the printer they find in it.      *)
(*                                                                           *)
(* A write truncates the file first, so the process may die between the two. *)
(* Sections saved in the same way share a name: "service" for those whose    *)
(* service is told afterwards, "plain" for the others; a section is 0 until  *)
(* somebody chooses 1.  Addresses are left out: saving one rewrites the file.*)
(*****************************************************************************)
EXTENDS Naturals, Sequences

CONSTANTS
    Requests,  \* requests and background searches under way at once
    Lists      \* the lists of printers the cloud, or an imported file, names

VARIABLES
    file,      \* Absent, Torn, or a configuration
    kept,      \* history: the file as it was last complete
    lock,      \* the request that holds m.mu for writing, or None
    request,   \* request -> [op, pc, view]
    told,      \* what the service was last configured with
    up,        \* does the web server run?
    login,     \* s.login
    boot,      \* printerIdx of main
    session    \* the printer the services are connected to, or None

store == <<file, kept, lock>>
server == <<told, up, login, boot>>
vars == <<store, request, server, session>>

None == "none"

Sections == {"service", "plain"}
Settings == [Sections -> {0, 1}]
NoSettings == [s \in Sections |-> 0]

Config(account, printers, active, settings) ==
    [is |-> "whole", account |-> account, printers |-> printers, active |-> active, settings |-> settings]

Absent == [is |-> "absent", account |-> FALSE, printers |-> <<>>, active |-> 0, settings |-> NoSettings]
Torn == [Absent EXCEPT !.is = "torn"]

(* json null, which a Modify of no file writes, reads as this. *)
Null == Config(FALSE, <<>>, 0, NoSettings)

(* buildConfigFromLogin, or what an imported file says: no settings. *)
Fresh(list) == Config(TRUE, list, 0, NoSettings)

IsConfigured(c) == c # Absent /\ c.account

ActivePrinter(c) ==
    IF c = Absent \/ c.printers = <<>> THEN None
    ELSE c.printers[IF c.active < Len(c.printers) THEN c.active + 1 ELSE 1]

Idle == [op |-> [kind |-> "none", of |-> "plain", to |-> 0], pc |-> "idle", view |-> Absent]
Op(kind, of, to) == [kind |-> kind, of |-> of, to |-> to]

Init ==
    /\ file \in {Absent} \cup {Fresh(l) : l \in Lists} /\ kept = file
    /\ lock = None /\ request = [r \in Requests |-> Idle]
    /\ told = 0 /\ up = TRUE
    /\ login = IsConfigured(file) /\ boot = 0
    /\ session = None

---------------------------------------------------------------------------
(* The manager.                                                              *)

(* Mutant of MayEnter: the write lock is taken for reading. *)
MayEnterTogether(r) == TRUE

MayEnter(r) == lock = None
MayLoad == lock = None

(* Mutant of MayDelete: a file is deleted without the lock. *)
MayDeleteAnyway(r) == TRUE

MayDelete(r) == lock = None

At(r, pc) == request[r].pc = pc
Goes(r, pc, view) == request' = [request EXCEPT ![r].pc = pc, ![r].view = view]
Answers(r) == request' = [request EXCEPT ![r] = Idle]
Arrives(r, op, pc, view) == request' = [request EXCEPT ![r] = [op |-> op, pc |-> pc, view |-> view]]

(* What the modifier makes of the configuration it is given, nil included.   *)
Modified(op, c) ==
    IF c = Absent THEN Null
    ELSE CASE op.kind = "section" -> [c EXCEPT !.settings[op.of] = op.to]
           [] op.kind = "switch" -> [c EXCEPT !.active = op.to]
           [] OTHER -> c

Modify(r) ==
    /\ At(r, "enter") /\ request[r].op.kind # "replace" /\ MayEnter(r)
    /\ IF file = Torn
       THEN Answers(r) /\ UNCHANGED lock
       ELSE Goes(r, "truncate", Modified(request[r].op, file)) /\ lock' = r
    /\ UNCHANGED <<file, kept, server, session>>

(* The modifiers of temperatures and cameras need a printer; the latter      *)
(* panics without a configuration, and the lock is let go all the same.      *)
ModifyRefused(r) ==
    /\ At(r, "enter") /\ request[r].op.kind = "section" /\ request[r].op.of = "plain" /\ MayEnter(r)
    /\ file # Torn /\ ActivePrinter(file) = None
    /\ Answers(r)
    /\ UNCHANGED <<store, server, session>>

Save(r) ==
    /\ At(r, "enter") /\ request[r].op.kind = "replace" /\ MayEnter(r)
    /\ Goes(r, "truncate", request[r].view)
    /\ lock' = r
    /\ UNCHANGED <<file, kept, server, session>>

Truncate(r) ==
    /\ At(r, "truncate")
    /\ file' = Torn
    /\ Goes(r, "write", request[r].view)
    /\ UNCHANGED <<kept, lock, server, session>>

After(op) ==
    CASE op.kind = "section" /\ op.of = "service" -> "tell"
      [] op.kind = "switch" -> "restart"
      [] OTHER -> "idle"

Write(r) ==
    /\ At(r, "write")
    /\ file' = request[r].view /\ kept' = file'
    /\ lock' = None
    /\ IF After(request[r].op) = "idle" THEN Answers(r) ELSE Goes(r, After(request[r].op), request[r].view)
    /\ UNCHANGED <<server, session>>

Delete(r) ==
    /\ At(r, "delete") /\ MayDelete(r)
    /\ file' = Absent /\ kept' = Absent
    /\ Goes(r, "load", Absent)
    /\ UNCHANGED <<lock, server, session>>

---------------------------------------------------------------------------
(* The handlers.                                                             *)

Free(r) == up /\ request[r] = Idle
Begins(r) == Free(r) /\ UNCHANGED <<store, server, session>>

(* Each parses its request and hands a modifier to the manager. *)
Edits(r, section) ==
    /\ Begins(r)
    /\ \E v \in {0, 1} : Arrives(r, Op("section", section, v), "enter", Absent)

SettingsTimelapseUpdate(r) == Edits(r, "service")
SettingsMQTTUpdate(r) == Edits(r, "service")
SettingsPrintMonitorUpdate(r) == Edits(r, "service")
SettingsAppearanceUpdate(r) == Edits(r, "plain")
SettingsTemperatureOverridesUpdate(r) == Edits(r, "plain")
SettingsCameraUpdate(r) == MayLoad /\ file # Torn /\ ActivePrinter(file) # None /\ Edits(r, "plain")
SettingsFilamentServiceUpdate(r) == Edits(r, "plain")
SettingsSmartSocketUpdate(r) == Edits(r, "plain")
NotificationsUpdate(r) == Edits(r, "plain")
UploadRateUpdate(r) == Edits(r, "plain")

(* tl.Configure, ha.Configure, pm.Configure: after the lock is let go. *)
Tell(r) ==
    /\ At(r, "tell")
    /\ told' = request[r].view.settings["service"]
    /\ Answers(r)
    /\ UNCHANGED <<store, up, login, boot, session>>

(* The cloud names a list; of the file there is, the addresses are read. *)
ConfigLogin(r) ==
    /\ Begins(r) /\ MayLoad
    /\ \E l \in Lists : Arrives(r, Op("replace", "plain", 0), "enter", Fresh(l))

ConfigUpload(r) ==
    /\ Begins(r)
    /\ \E l \in Lists : Arrives(r, Op("replace", "plain", 0), "enter", Fresh(l))

ImportSlicer(r) == ConfigUpload(r)

ConfigLogout(r) == Begins(r) /\ Arrives(r, Op("logout", "plain", 0), "delete", Absent)

ServerReload(r) == Begins(r) /\ Arrives(r, Op("reload", "plain", 0), "load", Absent)

(* ReloadState: the file is read first, s.mu is taken after. *)
ReloadLoads(r) ==
    /\ At(r, "load") /\ MayLoad
    /\ Goes(r, "apply", IF file = Torn THEN Absent ELSE file)
    /\ UNCHANGED <<store, server, session>>

ReloadState(r) ==
    /\ At(r, "apply")
    /\ login' = IsConfigured(request[r].view)
    /\ Goes(r, "restart", Absent)
    /\ UNCHANGED <<store, told, up, boot, session>>

RestartAll(r) ==
    /\ At(r, "restart")
    /\ session' = None
    /\ Answers(r)
    /\ UNCHANGED <<store, server>>

PrintersSwitch(r, i) ==
    /\ Begins(r) /\ MayLoad
    /\ file \notin {Absent, Torn} /\ i < Len(file.printers) /\ i # file.active
    /\ Arrives(r, Op("switch", "plain", i), "enter", Absent)

(* A printer is searched for in the LAN.  Its address is written when it is  *)
(* found, whatever became of the configuration meanwhile, and so is the rest *)
(* of the file; searches that find nothing, or nothing new, are left out.    *)
Search(r) == Begins(r) /\ MayLoad /\ Arrives(r, Op("address", "plain", 0), "enter", Absent)

LANSearch(r) == Search(r) /\ ActivePrinter(file) # None
DiscoverPrinterIP(r) == Search(r) /\ ActivePrinter(file) # None
DiscoverAndPersistPrinterIPs(r) == Search(r) /\ ActivePrinter(file) # None
CheckAndRepairConfig(r) == Search(r) /\ IsConfigured(file) /\ boot < Len(file.printers)
PersistPrinterIP(r) == Search(r) /\ session # None

---------------------------------------------------------------------------
(* The services and the process.                                             *)

Connected(c) == c.printers[boot + 1]

Connect ==
    /\ up /\ session = None /\ MayLoad
    /\ file \notin {Absent, Torn} /\ file.account /\ boot < Len(file.printers)
    /\ session' = Connected(file)
    /\ UNCHANGED <<store, request, server>>

Crash ==
    /\ up
    /\ up' = FALSE /\ session' = None /\ lock' = None
    /\ request' = [r \in Requests |-> Idle]
    /\ UNCHANGED <<file, kept, told, login, boot>>

(* A torn file is an error that keeps the server from starting. *)
Starts ==
    /\ ~up /\ file # Torn
    /\ up' = TRUE
    /\ login' = IsConfigured(file)
    /\ boot' = IF file = Absent THEN 0 ELSE file.active
    /\ told' = IF file = Absent THEN 0 ELSE file.settings["service"]
    /\ UNCHANGED <<store, request, session>>

---------------------------------------------------------------------------
Handles(r) ==
    \/ SettingsTimelapseUpdate(r) \/ SettingsMQTTUpdate(r) \/ SettingsPrintMonitorUpdate(r)
    \/ SettingsAppearanceUpdate(r) \/ SettingsTemperatureOverridesUpdate(r) \/ SettingsCameraUpdate(r)
    \/ SettingsFilamentServiceUpdate(r) \/ SettingsSmartSocketUpdate(r)
    \/ NotificationsUpdate(r) \/ UploadRateUpdate(r)
    \/ ConfigLogin(r) \/ ConfigUpload(r) \/ ImportSlicer(r) \/ ConfigLogout(r) \/ ServerReload(r)
    \/ \E i \in 0..1 : PrintersSwitch(r, i)
    \/ LANSearch(r) \/ DiscoverPrinterIP(r) \/ DiscoverAndPersistPrinterIPs(r)
    \/ CheckAndRepairConfig(r) \/ PersistPrinterIP(r)

Steps(r) ==
    \/ Modify(r) \/ ModifyRefused(r) \/ Save(r) \/ Truncate(r) \/ Write(r) \/ Delete(r)
    \/ Tell(r) \/ ReloadLoads(r) \/ ReloadState(r) \/ RestartAll(r)

Next ==
    \/ \E r \in Requests : Handles(r) \/ Steps(r)
    \/ Connect \/ Crash \/ Starts

Spec == Init /\ [][Next]_vars

---------------------------------------------------------------------------
SettingsOf(c) == IF c = Absent THEN NoSettings ELSE c.settings

WritesNow(r, kinds) == request[r].op.kind \in kinds /\ request[r].pc # request'[r].pc

(* A saved section changes only when its own handler saves it, or when a     *)
(* login, an import or a logout replaces the file: two saves at the same     *)
(* time, of two tabs or by an address search, both last.                     *)
SettingsSurvive ==
    [][\A s \in Sections : SettingsOf(kept')[s] # SettingsOf(kept)[s] =>
         \E r \in Requests :
           \/ WritesNow(r, {"replace", "logout"})
           \/ WritesNow(r, {"section"}) /\ request[r].op.of = s]_vars

(* Logged out is logged out: once the file is deleted, only a login or an    *)
(* import brings an account back, and no request that was under way, not     *)
(* even a search that goes on in the background.                             *)
LogoutIsFinal ==
    [][~IsConfigured(kept) /\ IsConfigured(kept') => \E r \in Requests : WritesNow(r, {"replace"})]_vars

(* "Switch printer? All connections will be restarted." (ankersrv.js:5798):  *)
(* once nothing is under way, the services connect to the active printer.    *)
ServicesFollowSwitch ==
    [][session' \notin {session, None} /\ (\A r \in Requests : request[r] = Idle)
         => session' = ActivePrinter(file)]_vars
====
