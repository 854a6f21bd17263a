----------------------------- MODULE SiteManager -----------------------------
(***************************************************************************)
(* Publishing a project from a Mac: daemon/site_manager.py, run by publish.py *)
(* as a process of its own for every command an agent gives.  Several may run  *)
(* at once, and an agent's command may be killed at any moment.  They share    *)
(* sites.json, which each reads at its start and writes whole at its end, a    *)
(* build of minutes later; launchd's jobs; and the ports.                      *)
(*                                                                         *)
(* A job's instance is `npx` and the server it started.  Ending a job ends    *)
(* npx; the server may live on as an orphan, with or without the port.         *)
(***************************************************************************)
EXTENDS Integers, FiniteSets

CONSTANTS
    Site,           \* projects that can be published
    NextSite,       \* those built with Next.js: their servers are found by folder
    Command,        \* processes of publish.py at work at the same time
    Port,           \* PORT_MIN..PORT_MAX
    Instance,       \* bound: instances alive at the same time
    Before,         \* [Site -> {0} \cup Port]: what may have been published before
    MaxCommands,    \* bound: commands in all
    MaxKilled,      \* bound: commands killed on their way
    MaxRefused,     \* bound: sites whose job launchd fails to load or unload
    NoEntry, Emptied

ASSUME SiteAssumption ==
    /\ NextSite \subseteq Site /\ Port \subseteq Nat \ {0} /\ Instance \subseteq Nat \ {0}
    /\ Before \in [Site -> {0} \cup Port]
    /\ \A s, r \in Site : s # r /\ Before[s] # 0 => Before[s] # Before[r]
    /\ IsFiniteSet(Port) /\ IsFiniteSet(Instance)
    /\ {MaxCommands, MaxKilled, MaxRefused} \subseteq Nat

VARIABLES
    sites,      \* sites.json, or Emptied while one writes it
    loaded,     \* each site's job, as launchd has loaded it: its port, 0 for none
    filed,      \* sites that have their launchd file
    current,    \* the job's instance, 0 while launchd has yet to start one
    instance,   \* every instance: its site, port, and how it lives
    command,    \* the commands at work
    given, killed,
    refused,    \* history: sites whose job launchd did not load or unload when told to,
                \* so that it is not as the command then wrote
    crossed     \* history: sites touched by commands that overlapped, by one that was
                \* killed, or whose server launchd started just before a restart

siteVars == <<sites, loaded, filed, current, instance, command, given, killed, refused, crossed>>

RegistryEntry == [port : Port, running : BOOLEAN] \cup {NoEntry}
Lives == {"none", "starting", "listening", "holding", "deaf"}
NoInstance == [site |-> NoEntry, port |-> 0, life |-> "none"]
NoRegistry == [s \in Site |-> NoEntry]

ASSUME RegistryAssumption ==
    /\ NoEntry \notin Site \cup [port : Port, running : BOOLEAN]
    /\ Emptied \notin [Site -> RegistryEntry]

Rest == [at |-> "rest", op |-> "none", site |-> NoEntry, seen |-> NoRegistry, port |-> 0,
         old |-> {}, had |-> {}, alone |-> TRUE]

(* Nothing has been published, or some sites have, each on a port of its own;  *)
(* the Mac has just been started: launchd has yet to start their servers.      *)
SiteInit ==
    /\ loaded \in {Before, [s \in Site |-> 0]}
    /\ sites = [s \in Site |-> IF loaded[s] = 0 THEN NoEntry ELSE [port |-> loaded[s], running |-> TRUE]]
    /\ current = [s \in Site |-> 0]
    /\ instance = [n \in Instance |-> NoInstance]
    /\ command = [c \in Command |-> Rest]
    /\ filed = {s \in Site : loaded[s] # 0}
    /\ given = 0 /\ killed = 0 /\ refused = {} /\ crossed = {}

Alive(n) == instance[n].life # "none"
Listens(n) == instance[n].life \in {"listening", "holding"}
InUse(p) == \E n \in Instance : Listens(n) /\ instance[n].port = p
OfSite(s) == {n \in Instance : Alive(n) /\ instance[n].site = s}

(* _load_sites: a file that cannot be parsed is an empty registry.           *)
Loaded == IF sites = Emptied THEN NoRegistry ELSE sites

Busy(c) == command[c].at # "rest"
Goes(c, where) == command' = [command EXCEPT ![c].at = where]
Ends(c) == command' = [command EXCEPT ![c] = Rest]
Site_(c) == command[c].site

-----------------------------------------------------------------------------
(* launchd.                                                                 *)

(* KeepAlive starts an instance of a loaded job that has none.  Process ids   *)
(* that a command has noted down are not used again meanwhile.               *)
Starts(s) ==
    /\ loaded[s] # 0 /\ current[s] = 0
    /\ \E n \in Instance :
        /\ ~Alive(n) /\ \A c \in Command : n \notin command[c].old
        /\ \A k \in Instance : k < n => Alive(k) \/ \E c \in Command : k \in command[c].old
        /\ instance' = [instance EXCEPT ![n] = [site |-> s, port |-> loaded[s], life |-> "starting"]]
        /\ current' = [current EXCEPT ![s] = n]
    /\ crossed' = crossed \cup {Site_(c) : c \in {d \in Command :
                                Site_(d) = s /\ command[d].at = "restart"}}
    /\ UNCHANGED <<sites, loaded, filed, command, given, killed, refused>>

(* It takes the port, or ends because somebody has it.                       *)
Binds(s) ==
    /\ current[s] # 0 /\ instance[current[s]].life = "starting"
    /\ IF InUse(instance[current[s]].port)
       THEN /\ instance' = [instance EXCEPT ![current[s]] = NoInstance]
            /\ current' = [current EXCEPT ![s] = 0]
       ELSE /\ instance' = [instance EXCEPT ![current[s]].life = "listening"]
            /\ UNCHANGED current
    /\ UNCHANGED <<sites, loaded, filed, command, given, killed, refused, crossed>>

(* bootout, kickstart -k: npx is ended; what of its server?                  *)
Orphaned(s) ==
    IF current[s] = 0 THEN {instance}
    ELSE {[instance EXCEPT ![current[s]] = NoInstance],
          [instance EXCEPT ![current[s]].life = "deaf"]}
         \cup IF instance[current[s]].life = "listening"
              THEN {[instance EXCEPT ![current[s]].life = "holding"]} ELSE {}

(* _kill_processes, on processes of whichever site.                          *)
Kill(pids) ==
    /\ instance' = [n \in Instance |-> IF n \in pids THEN NoInstance ELSE instance[n]]
    /\ current' = [s \in Site |-> IF current[s] \in pids THEN 0 ELSE current[s]]

-----------------------------------------------------------------------------
(* publish, unpublish and rebuild.                                           *)

Others(c) == {Site_(d) : d \in {x \in Command \ {c} : Busy(x)}}

Running(entry) == entry # NoEntry /\ entry.running
Begun(op, s, where) ==
    [Rest EXCEPT !.op = op, !.site = s, !.seen = Loaded, !.at = where,
                 !.port = IF Loaded[s] = NoEntry THEN 0 ELSE Loaded[s].port]

(* publish: a site that is running keeps its port.                           *)
Publish(s) == Begun("publish", s, IF Running(Loaded[s]) THEN "build" ELSE "allocate")

(* unpublish, of a site in the registry.                                     *)
Unpublish(s) == IF Loaded[s] = NoEntry THEN Rest ELSE Begun("unpublish", s, "unload")

(* rebuild, of a site in the registry; it writes nothing.                    *)
Rebuild(s) == IF Loaded[s] = NoEntry THEN Rest
              ELSE [Begun("rebuild", s, "build") EXCEPT !.seen = NoRegistry]

(* A command begins with the registry as it reads it.  (Who else is at work   *)
(* is history, for the properties.)                                          *)
BeginCommand(c, s) ==
    /\ ~Busy(c) /\ given < MaxCommands /\ given' = given + 1
    /\ \E begun \in {Publish(s), Unpublish(s), Rebuild(s)} :
        command' = [d \in Command |->
            IF d = c THEN [begun EXCEPT !.alone = begun = Rest \/ s \notin Others(c)]
            ELSE IF Site_(d) = s /\ begun # Rest THEN [command[d] EXCEPT !.alone = FALSE]
            ELSE command[d]]
    /\ crossed' = IF sites = Emptied THEN Site
                  ELSE IF Others(c) = {} THEN crossed ELSE crossed \cup {s} \cup Others(c)
    /\ UNCHANGED <<sites, loaded, filed, current, instance, killed, refused>>

(* MUTANT FreeNow: a port nobody listens on is free.                         *)
FreeNow == {p \in Port : ~InUse(p)}
FreePorts ==
    {p \in Port : ~InUse(p) /\ \A s \in Site : Loaded[s] = NoEntry \/ Loaded[s].port # p}

(* _allocate_port reads the registry once more; it raises when none is free. *)
Allocate(c) ==
    /\ command[c].at = "allocate"
    /\ IF FreePorts = {} THEN Ends(c)
       ELSE \E p \in FreePorts :
            /\ \A q \in FreePorts : p <= q
            /\ command' = [command EXCEPT ![c].port = p, ![c].at = "build"]
    /\ UNCHANGED <<sites, loaded, filed, current, instance, given, killed, refused, crossed>>

(* _build_project, which may fail.                                           *)
Build(c) ==
    /\ command[c].at = "build" /\ (Goes(c, "snapshot") \/ Ends(c))
    /\ UNCHANGED <<sites, loaded, filed, current, instance, given, killed, refused, crossed>>

Job(s) == IF current[s] = 0 THEN {} ELSE {current[s]}
Listeners(p) == {n \in Instance : Listens(n) /\ instance[n].port = p}

(* MUTANT NoneByFolder: an orphan an earlier command left is not looked for.  *)
NoneByFolder(s) == {}
ByFolder(s) == IF s \in NextSite THEN {n \in OfSite(s) : instance[n].life # "starting"} ELSE {}

Old(c) == Job(Site_(c)) \cup Listeners(command[c].port) \cup ByFolder(Site_(c))

(* For the property only: every server of a Next.js site.                      *)
Had(c) == IF Site_(c) \in NextSite THEN OfSite(Site_(c)) ELSE {}

(* _snapshot_site_pids.                                                      *)
Snapshot(c) ==
    /\ command[c].at = "snapshot"
    /\ command' = [command EXCEPT ![c].at = "restart", ![c].old = Old(c), ![c].had = Had(c)]
    /\ UNCHANGED <<sites, loaded, filed, current, instance, given, killed, refused, crossed>>

(* launchctl.  Its results are not looked at: launchd may refuse to unload a   *)
(* job, or to load one.                                                       *)
Refusable(s) == s \in refused \/ Cardinality(refused) < MaxRefused

(* A loaded job is booted out; a job of the port is there then, or none (0).  *)
Boots(s, p) ==
    /\ instance' \in IF loaded[s] # 0 THEN Orphaned(s) ELSE {instance}
    /\ loaded' = [loaded EXCEPT ![s] = p]
    /\ current' = [current EXCEPT ![s] = 0]

(* Bootout is asked for only where the file exists.                          *)
Bootable(s) == s \in filed \/ loaded[s] = 0

(* A loaded job stays as it is, for bootout failed or was not asked for.      *)
Stays(s) ==
    /\ loaded[s] # 0 /\ (s \in filed => Refusable(s))
    /\ UNCHANGED <<instance, loaded, current>>

(* publish: the job is booted out if it has a file, and loaded with the port; *)
(* loading one that is still there does nothing.                             *)
Reload(c) ==
    /\ command[c].at = "restart" /\ command[c].op = "publish" /\ Goes(c, "reap")
    /\ \/ /\ Bootable(Site_(c)) /\ Boots(Site_(c), command[c].port)
          /\ UNCHANGED refused
       \/ /\ Bootable(Site_(c)) /\ Refusable(Site_(c)) /\ Boots(Site_(c), 0)
          /\ refused' = refused \cup {Site_(c)}
       \/ /\ Stays(Site_(c))
          /\ refused' = IF loaded[Site_(c)] = command[c].port THEN refused
                        ELSE refused \cup {Site_(c)}
    /\ filed' = filed \cup {Site_(c)}
    /\ UNCHANGED <<sites, given, killed, crossed>>

(* rebuild: kickstart -k; nothing happens to a job that is not loaded, or when *)
(* launchd refuses.                                                          *)
Kickstart(c) ==
    /\ command[c].at = "restart" /\ command[c].op = "rebuild" /\ Goes(c, "reap")
    /\ \/ /\ loaded[Site_(c)] # 0 /\ instance' \in Orphaned(Site_(c))
          /\ current' = [current EXCEPT ![Site_(c)] = 0]
       \/ UNCHANGED <<instance, current>>
    /\ UNCHANGED <<sites, loaded, filed, given, killed, refused, crossed>>

New(c) == Job(Site_(c)) \ command[c].old
Up(c) == \E n \in New(c) : n \in Listeners(command[c].port)

(* MUTANT OnlyWhenUp: the old ones are left while no new one listens.         *)
OnlyWhenUp(c) == IF Up(c) THEN command[c].old \ New(c) ELSE {}
StalePids(c) == command[c].old \ New(c)

(* _reap_old_instance: when the new instance has the port, or after 30 s.    *)
Reap(c) ==
    /\ command[c].at = "reap" /\ Kill(StalePids(c))
    /\ command' = [command EXCEPT ![c].at = IF command[c].op = "rebuild" THEN "done" ELSE "save",
                                  ![c].old = {}]
    /\ UNCHANGED <<sites, loaded, filed, given, killed, refused, crossed>>

(* _unload_launchd notes the processes and boots the job out (one step here), *)
Unload(c) ==
    /\ command[c].at = "unload"
    /\ command' = [command EXCEPT ![c].at = "killold", ![c].old = Old(c), ![c].had = Had(c)]
    /\ \/ Bootable(Site_(c)) /\ Boots(Site_(c), 0) /\ UNCHANGED refused
       \/ Stays(Site_(c)) /\ refused' = refused \cup {Site_(c)}
    /\ filed' = filed \ {Site_(c)}
    /\ UNCHANGED <<sites, given, killed, crossed>>

(* ... and ends what is left of them.                                        *)
KillOld(c) ==
    /\ command[c].at = "killold" /\ Kill(command[c].old)
    /\ command' = [command EXCEPT ![c].at = "save", ![c].old = {}]
    /\ UNCHANGED <<sites, loaded, filed, given, killed, refused, crossed>>

(* _save_sites: write_text empties the file, then fills it, with what the     *)
(* command has read at its start and its own entry.                          *)
OpenFile(c) ==
    /\ command[c].at = "save" /\ Goes(c, "write") /\ sites' = Emptied
    /\ UNCHANGED <<loaded, filed, current, instance, given, killed, refused, crossed>>

WriteFile(c) ==
    /\ command[c].at = "write" /\ Ends(c)
    /\ sites' = [command[c].seen EXCEPT ![Site_(c)] =
                    [port |-> command[c].port, running |-> command[c].op = "publish"]]
    /\ UNCHANGED <<loaded, filed, current, instance, given, killed, refused, crossed>>

Done(c) ==
    /\ command[c].at = "done" /\ Ends(c)
    /\ UNCHANGED <<sites, loaded, filed, current, instance, given, killed, refused, crossed>>

(* The agent's command is killed with its turn.                              *)
Killed(c) ==
    /\ Busy(c) /\ killed < MaxKilled /\ killed' = killed + 1
    /\ Ends(c)
    /\ crossed' = crossed \cup (IF command[c].at = "write" THEN Site ELSE {Site_(c)})
    /\ UNCHANGED <<sites, loaded, filed, current, instance, given, refused>>

CommandStep(c) ==
    \/ Allocate(c) \/ Build(c) \/ Snapshot(c) \/ Reload(c) \/ Kickstart(c) \/ Reap(c)
    \/ Unload(c) \/ KillOld(c) \/ OpenFile(c) \/ WriteFile(c) \/ Done(c)

SiteNext ==
    \/ \E c \in Command :
        \/ \E s \in Site : BeginCommand(c, s)
        \/ CommandStep(c) \/ Killed(c)
    \/ \E s \in Site : Starts(s) \/ Binds(s)

(* launchd goes on, and a command that is not killed gets to its end.        *)
SiteFairness ==
    /\ \A s \in Site : WF_siteVars(Starts(s)) /\ WF_siteVars(Binds(s))
    /\ \A c \in Command : WF_siteVars(CommandStep(c))

SiteSpec == SiteInit /\ [][SiteNext]_siteVars /\ SiteFairness

-----------------------------------------------------------------------------
SiteTypeOK ==
    /\ sites \in [Site -> RegistryEntry] \cup {Emptied}
    /\ loaded \in [Site -> {0} \cup Port] /\ current \in [Site -> {0} \cup Instance]
    /\ instance \in [Instance -> [site : Site \cup {NoEntry}, port : {0} \cup Port, life : Lives]]
    /\ given \in 0..MaxCommands /\ killed \in 0..MaxKilled
    /\ filed \subseteq Site /\ refused \subseteq Site /\ crossed \subseteq Site

Reaped(c) == command[c].at \in {"save", "done"}

(* Once a publish, a rebuild or an unpublish has cleaned up, no server of a    *)
(* Next.js site that was there before it restarted the job answers any more     *)
(* with the old build, whichever command had left it behind - the case of an    *)
(* old next-server that kept its connections after a rebuild.  A second        *)
(* command on the same site meanwhile may leave one of its own.               *)
OldServersGone ==
    \A c \in Command : Reaped(c) /\ command[c].alone =>
        \A n \in command[c].had : n \in OfSite(Site_(c)) => current[Site_(c)] = n

Quiet(s) == \A c \in Command : Site_(c) # s

(* When no command is at work on a site, the registry says it runs exactly    *)
(* when launchd has its job, on the registry's port, which no other site       *)
(* that runs has - unless commands overlapped, one was killed, or launchd did   *)
(* not load or unload the job when told to, which the code does not notice.   *)
RegistryTrue ==
    sites # Emptied =>
        \A s \in Site \ (crossed \cup refused) : Quiet(s) =>
            /\ (sites[s] # NoEntry /\ sites[s].running) <=> loaded[s] # 0
            /\ loaded[s] # 0 =>
                /\ loaded[s] = sites[s].port
                /\ \A r \in Site \ (crossed \cup refused \cup {s}) : loaded[r] # loaded[s]

Served(s) == current[s] # 0 /\ instance[current[s]].life = "listening"

(* For the property only: two loaded jobs have one port, one of them a job     *)
(* that launchd kept when it was told to unload it.                          *)
Clash(s) == \E r \in Site \ {s} : loaded[r] = loaded[s] /\ {r, s} \cap refused # {}

(* A site whose job is loaded comes up in the end, though an old server may    *)
(* hold its port when launchd first tries - unless it is taken down, a job that *)
(* launchd did not unload has its port, or commands overlapped, one was killed,  *)
(* or launchd started an instance between a command's look for old ones and its  *)
(* restart, which is then never found.                                       *)
SiteComesUp ==
    \A s \in Site :
        loaded[s] # 0 ~> (Served(s) \/ loaded[s] = 0 \/ Clash(s) \/ crossed # {})
=============================================================================
