------------------------------ MODULE Harnesses ------------------------------
(***************************************************************************)
(* Registering the MCP server with the harnesses of a machine, removing it *)
(* again, and what doctor says about it (src/harness/harnesses.ts,         *)
(* src/doctor.ts).                                                         *)
(*                                                                         *)
(* Claude Code and Codex are registered through their own CLIs, which may  *)
(* fail; OpenCode through an edit of opencode.json, a file of the user's,  *)
(* with one backup beside it.  A command may be interrupted between two    *)
(* system calls, and while it writes; before and after it the user edits   *)
(* the files, installs and removes harnesses, or moves the package.        *)
(*                                                                         *)
(* T3 Code, which has no registration, is left out.  An entry of ours is   *)
(* one value: the command, and whether the user has added a field.         *)
(***************************************************************************)
EXTENDS JsonMember

CONSTANTS
  Commands,    \* where the package can be installed: what is registered
  Written,     \* what the user may write into opencode.json from scratch
  Added,       \* a member the user may add to it by hand
  MaxEvents,   \* BOUND: what the user does besides running the commands
  None,
  Unparsable   \* a config file that is not a JSON object

Cli == {"claude", "codex"}
Harness == Cli \cup {"opencode"}
HARNESSES == <<"claude", "codex", "opencode">>

ASSUME EventsAssumption == MaxEvents \in Nat
ASSUME CommandsAssumption == None \notin Commands \cup [command : Commands, plain : BOOLEAN]

VARIABLES
  onPath,   \* the harnesses whose binary is on PATH
  here,     \* the command of the package as it is installed now
  entry,    \* the entries in .claude.json and config.toml
  config,   \* opencode.json: a text, Unparsable or None
  backup,   \* opencode.json.bak
  rival,    \* whether OpenCode reads an opencode.jsonc or a config.json
  job,      \* the install or uninstall under way
  found,    \* history: the two files before the first edit of an install,
            \* as long as nobody else has touched them since, or None
  events    \* how often the user has acted

harnesses == <<onPath, here, entry, config, backup, rival, job, found, events>>

Ours == "agent-flows"
Entry(command, extra) == <<"entry", command, extra>>
Entries == {Entry(command, extra) : command \in Commands, extra \in BOOLEAN}

(* The tokens a text can come to hold, and no text.                        *)
Token ==
  (UNION {ToSet(text) : text \in Written})
    \cup {Open, Close, Comma, Blank, Name("mcp"), Name(Ours), Name(Added), <<"value", Added>>}
    \cup Entries

ASSUME NoTextAssumption ==
  None # Unparsable /\ None \notin Seq(Token) /\ Unparsable \notin Seq(Token)

(* What the user has written parses, names at most one "mcp", which is an  *)
(* object, and in it nothing of ours.                                      *)
ASSUME WrittenAssumption ==
  \A text \in Written :
    /\ text \in Seq(Token) /\ IsObject(text)
    /\ LET mcps == Members(text, RootObjectStart(text), "mcp")
       IN  \A k, l \in mcps : k = l /\ text[k + 1] = Open /\ Members(text, k + 1, Ours) = {}

ASSUME AddedAssumption == Added \notin {"mcp", Ours}

Idle == [at |-> "idle", verb |-> "none", todo |-> <<>>, text |-> None,
         results |-> [h \in Harness |-> "none"]]

HarnessInit ==
  /\ onPath \in {Harness, Harness \ {"claude"}}
  /\ here \in Commands
  /\ entry = [h \in Cli |-> None]
  /\ config \in Written \cup {None, Unparsable}
  /\ backup = None
  /\ rival = FALSE
  /\ job = Idle
  /\ found = None
  /\ events = 0

---------------------------------------------------------------------------
(* Reading what is registered.                                             *)

Parses(text) == text \notin {None, Unparsable}

(* Where the mcp object of a text begins, and our entry in it; 0 if none.  *)
McpObject(text) ==
  LET at == FindMember(text, RootObjectStart(text), "mcp") IN IF at = 0 THEN 0 ELSE at + 1

OurMember(text) ==
  IF McpObject(text) = 0 THEN 0 ELSE FindMember(text, McpObject(text), Ours)

(* readClaudeRegistration, readCodexRegistration: the scan of config.toml  *)
(* does not see an entry whose values go over several lines.               *)
ReadCli(h) == IF entry[h] # None /\ entry[h].plain THEN entry[h].command ELSE None

(* readOpencodeRegistration                                                *)
ReadOpencode ==
  IF Parses(config) /\ OurMember(config) # 0 THEN config[OurMember(config) + 1][2] ELSE None

Read(h) == IF h = "opencode" THEN ReadOpencode ELSE ReadCli(h)

(* commandResolves: what is registered is there, if it was not moved.      *)
CommandResolves(command) == command = here

(* harnessReach and reachResult: what doctor says of a harness.            *)
ReachResult(h) ==
  CASE Read(h) = None -> IF h \in onPath THEN "warn" ELSE "ok"
    [] CommandResolves(Read(h)) -> "ok"
    [] OTHER -> "fail"

---------------------------------------------------------------------------
(* The commands, harness by harness.                                       *)

Now == Head(job.todo)

(* runSetup, runRemove                                                     *)
Begin(verb) ==
  /\ job.at = "idle"
  /\ job' = [Idle EXCEPT !.at = "read", !.verb = verb, !.todo = HARNESSES]
  /\ UNCHANGED <<onPath, here, entry, config, backup, rival, found, events>>

(* The job after a result for the harness it is at.                        *)
WithResult(status) ==
  [job EXCEPT !.at = IF Len(job.todo) = 1 THEN "report" ELSE "read",
              !.todo = Tail(@), !.text = None, !.results[Now] = status]

Doing(verb, at) == job.verb = verb /\ job.at = at
Result(status) == job' = WithResult(status)

(* Variant: an entry is an entry, whatever it names.                       *)
AnyCommand(command) == TRUE

(* sameCommand                                                             *)
SameCommand(command) == command = here

(* setupCliHarness                                                         *)
SetupCli ==
  /\ Doing("install", "read")
  /\ Now \in Cli
  /\ CASE Now \notin onPath -> Result("not-installed")
       [] Now \in onPath /\ ReadCli(Now) = None -> job' = [job EXCEPT !.at = "add"]
       [] Now \in onPath /\ ReadCli(Now) # None ->
            IF SameCommand(ReadCli(Now)) THEN Result("already-registered")
            ELSE job' = [job EXCEPT !.at = "remove"]
  /\ UNCHANGED <<onPath, here, entry, config, backup, rival, found, events>>

(* "mcp remove", which may fail; the entry of another command goes before  *)
(* ours is added.                                                          *)
ReplaceOld ==
  /\ Doing("install", "remove")
  /\ \/ /\ entry' = [entry EXCEPT ![Now] = None]
        /\ job' = [job EXCEPT !.at = "add"]
     \/ /\ Result("failed")
        /\ UNCHANGED entry
  /\ UNCHANGED <<onPath, here, config, backup, rival, found, events>>

(* "mcp add", which writes the values on one line each.                    *)
AddEntry ==
  /\ Doing("install", "add")
  /\ \/ /\ entry' = [entry EXCEPT ![Now] = [command |-> here, plain |-> TRUE]]
        /\ Result("registered")
     \/ /\ Result("failed")
        /\ UNCHANGED entry
  /\ UNCHANGED <<onPath, here, config, backup, rival, found, events>>

(* removeCliHarness                                                        *)
RemoveCli ==
  /\ Doing("uninstall", "read")
  /\ Now \in Cli
  /\ IF ReadCli(Now) = None THEN Result("not-registered") /\ UNCHANGED entry
     ELSE \/ Result("failed") /\ UNCHANGED entry
          \/ /\ Now \in onPath
             /\ entry' = [entry EXCEPT ![Now] = None]
             /\ Result("removed")
  /\ UNCHANGED <<onPath, here, config, backup, rival, found, events>>

(* The text with our entry, whose other fields are kept.                   *)
WithOurs(text) ==
  LET at == OurMember(text)
      ours == Entry(here, IF at = 0 THEN FALSE ELSE text[at + 1][3])
  IN  IF McpObject(text) = 0
      THEN SetMember(text, RootObjectStart(text), "mcp",
                     <<Open, Blank, Name(Ours), ours, Blank, Close>>)
      ELSE SetMember(text, McpObject(text), Ours, <<ours>>)

(* The backup is taken once.                                               *)
FirstCopy == IF backup = None THEN config ELSE backup

(* What is read of a file that is not there yet.                           *)
Fresh == <<Open, Close, Blank>>

(* Variant: what cannot be read is taken for an empty file.                *)
ReadLax == IF Parses(config) THEN config ELSE Fresh

ReadText == IF config = None THEN Fresh ELSE config

(* setupOpencode, up to the write.                                         *)
SetupOpencode ==
  /\ Doing("install", "read")
  /\ Now = "opencode"
  /\ CASE Now \notin onPath -> Result("not-installed") /\ UNCHANGED <<backup, found>>
       [] Now \in onPath /\ rival -> Result("refused") /\ UNCHANGED <<backup, found>>
       [] Now \in onPath /\ ~rival /\ ~Parses(ReadText) ->
            Result("failed") /\ UNCHANGED <<backup, found>>
       [] Now \in onPath /\ ~rival /\ Parses(ReadText) ->
            IF ReadOpencode # None /\ SameCommand(ReadOpencode)
            THEN Result("already-registered") /\ UNCHANGED <<backup, found>>
            ELSE /\ backup' = FirstCopy
                 /\ job' = [job EXCEPT !.at = "write", !.text = WithOurs(ReadText)]
                 /\ found' = IF ReadOpencode = None
                             THEN [config |-> config, backup |-> backup, moved |-> FALSE]
                             ELSE found
  /\ UNCHANGED <<onPath, here, entry, config, rival, events>>

(* writeConfigText                                                         *)
WriteConfig ==
  /\ job.at = "write"
  /\ config' = job.text
  /\ IF job.verb = "install" THEN Result("registered")
     ELSE IF backup # None THEN job' = [job EXCEPT !.at = "discard"]
     ELSE Result("removed")
  /\ UNCHANGED <<onPath, here, entry, backup, rival, found, events>>

HasMcp(text) == Parses(text) /\ McpObject(text) # 0
EmptyObject(text, open) == text[SkipBlanks(text, open + 1)] = Close

(* Variant: an mcp object that is left empty always goes.                  *)
AlwaysOurs == TRUE

(* The backup tells whether the user had an mcp object.                    *)
McpWasOurs == backup = None \/ ~HasMcp(backup)

(* Our entry deleted, and the mcp object that install has introduced.      *)
WithoutOurs(text) ==
  LET rest == DeleteMember(text, McpObject(text), Ours)
  IN  IF McpWasOurs /\ EmptyObject(rest, McpObject(rest))
      THEN DeleteMember(rest, RootObjectStart(rest), "mcp") ELSE rest

(* removeOpencode, up to the write: a file that install has created goes.  *)
RemoveOpencode ==
  LET rest == WithoutOurs(config) IN
  /\ Doing("uninstall", "read")
  /\ Now = "opencode"
  /\ CASE config = None -> Result("not-registered") /\ UNCHANGED config
       [] config = Unparsable -> Result("failed") /\ UNCHANGED config
       [] Parses(config) /\ OurMember(config) = 0 ->
            Result("not-registered") /\ UNCHANGED config
       [] Parses(config) /\ OurMember(config) # 0 ->
            IF backup = None /\ EmptyObject(rest, RootObjectStart(rest))
            THEN config' = None /\ Result("removed")
            ELSE /\ job' = [job EXCEPT !.at = "write", !.text = rest]
                 /\ UNCHANGED config
  /\ UNCHANGED <<onPath, here, entry, backup, rival, found, events>>

(* discardBackup: only when it is the file again, byte for byte.           *)
DiscardBackup ==
  /\ job.at = "discard"
  /\ backup' = IF backup = config THEN None ELSE backup
  /\ Result("removed")
  /\ UNCHANGED <<onPath, here, entry, config, rival, found, events>>

HarnessStep ==
  \/ SetupCli \/ ReplaceOld \/ AddEntry \/ SetupOpencode
  \/ RemoveCli \/ RemoveOpencode \/ DiscardBackup \/ WriteConfig

---------------------------------------------------------------------------
(* The user, and what goes wrong.                                          *)

Event == events < MaxEvents /\ events' = events + 1

(* The backup is about to be taken.                                        *)
Copying ==
  /\ Doing("install", "read") /\ Now = "opencode" /\ Now \in onPath /\ ~rival
  /\ Parses(config) /\ backup = None
  /\ ReadOpencode = None \/ ~SameCommand(ReadOpencode)

(* The command is killed; a file that is being written or copied may be    *)
(* cut short.                                                              *)
Interrupt ==
  /\ Event
  /\ job.at \notin {"idle", "report"}
  /\ job' = Idle
  /\ found' = None
  /\ config' \in IF job.at = "write" THEN {config, Unparsable} ELSE {config}
  /\ backup' \in IF Copying THEN {backup, Unparsable} ELSE {backup}
  /\ UNCHANGED <<onPath, here, entry, rival>>

AtRest == job.at = "idle"

(* npm or a node version manager puts the package somewhere else.          *)
MovePackage ==
  /\ Event /\ AtRest
  /\ here' \in Commands \ {here}
  /\ found' = IF found = None THEN None ELSE [found EXCEPT !.moved = TRUE]
  /\ UNCHANGED <<onPath, entry, config, backup, rival, job>>

(* A harness is installed or removed, or OpenCode is given another file.   *)
ChangeHarness ==
  /\ Event /\ AtRest
  /\ \/ /\ \E h \in Harness :
             onPath' = IF h \in onPath THEN onPath \ {h} ELSE onPath \cup {h}
        /\ UNCHANGED rival
     \/ rival' = ~rival /\ UNCHANGED onPath
  /\ UNCHANGED <<here, entry, config, backup, job, found>>

(* The codex entry is laid out by hand over several lines.                 *)
LayOutEntry ==
  /\ Event /\ AtRest
  /\ entry["codex"] # None
  /\ entry' = [entry EXCEPT !["codex"].plain = FALSE]
  /\ UNCHANGED <<onPath, here, config, backup, rival, job, found>>

(* opencode.json is edited by hand: a member is added, our entry is given  *)
(* a field or removed, or the file is deleted or is no longer JSON, and    *)
(* then written anew.                                                      *)
EditedConfigs ==
  {None, Unparsable} \cup
  IF ~Parses(config) THEN Written
  ELSE {SetMember(config, RootObjectStart(config), Added, <<<<"value", Added>>>>)} \cup
       IF OurMember(config) = 0 THEN {}
       ELSE {[config EXCEPT ![OurMember(config) + 1] = Entry(@[2], TRUE)],
             DeleteMember(config, McpObject(config), Ours)}

EditConfig ==
  /\ Event /\ AtRest
  /\ config' \in EditedConfigs
  /\ config' # config
  /\ found' = None
  /\ UNCHANGED <<onPath, here, entry, backup, rival, job>>

UserStep ==
  \/ Interrupt \/ MovePackage \/ ChangeHarness \/ LayOutEntry \/ EditConfig

---------------------------------------------------------------------------
(* Properties.                                                             *)

Reported(verb) == job.at = "report" /\ job.verb = verb

Solid(text) == Among(text, {Blank})

(* What an install or uninstall reports is so, and doctor agrees: after    *)
(* "registered" the harness starts the package where it is now, also when  *)
(* it has moved; after "removed" or "not-registered" nothing is read; and  *)
(* a command that says nothing of a failure has reached every harness      *)
(* (runSetup, runRemove, reachResult).                                     *)
ReportIsTrue ==
  /\ job.at = "report" =>
       \A h \in Harness :
         /\ job.results[h] \in {"registered", "already-registered"} =>
              Read(h) = here /\ ReachResult(h) = "ok"
         /\ job.results[h] \in {"removed", "not-registered"} => Read(h) = None
  /\ Reported("install") /\ (\A h \in Harness : job.results[h] \notin {"failed", "refused"}) =>
       \A h \in onPath : ReachResult(h) = "ok"

(* The backup that stands while our entry is in the file: a new one, or    *)
(* that of an earlier install, which is never renewed.                     *)
Saved == IF found.backup = None THEN found.config ELSE found.backup

(* Where uninstall is misled about the file that was there.  A file that   *)
(* install created and edits again after the package has moved is taken    *)
(* for the user's.  An old backup is the copy of another text: beside it,  *)
(* a file that install created is kept as an empty object, and whether an  *)
(* mcp object that is left empty was the user's is read off the old text.  *)
Misled ==
  LET old == found.backup
      was == found.config
  IN  \/ old = None /\ was = None /\ found.moved
      \/ old # None /\ was = None
      \/ old # None /\ HasMcp(old) /\ ~HasMcp(was)
      \/ old # None /\ ~HasMcp(old) /\ HasMcp(was) /\ EmptyObject(was, McpObject(was))

(* "install-then-uninstall leaves the directory exactly as it was found"   *)
(* (removeOpencode): but for blanks lost in an object that was empty, the  *)
(* file is what the first edit of the install found, also when earlier     *)
(* installs, edits and interrupted commands have left a backup, and that   *)
(* backup goes only if the file is again what it holds.  The code does not *)
(* keep this in the cases of Misled.                                       *)
ConfigIsRestored ==
  Reported("uninstall") /\ job.results["opencode"] = "removed" /\ found # None =>
    \/ Misled
    \/ config = None /\ found.config = None /\ backup = None
    \/ /\ Parses(config) /\ Parses(found.config)
       /\ Solid(config) = Solid(found.config)
       /\ backup = IF config = Saved THEN None ELSE Saved

(* What the user has in opencode.json, in its order.                       *)
Frame == {Open, Close, Comma, Blank, Name("mcp"), Name(Ours)} \cup Entries
Others(text) == IF Parses(text) THEN Among(text, Frame) ELSE {text}

(* No command changes, moves or drops a member of the user's, whatever was *)
(* edited between the commands, and none writes over a file it cannot read *)
(* (setupOpencode, removeOpencode).                                        *)
OthersSurvive ==
  [][HarnessStep =>
       \/ Others(config') = Others(config)
       \/ config = None /\ Others(config') = {}
       \/ config' = None /\ Others(config) = {}]_harnesses
=============================================================================
