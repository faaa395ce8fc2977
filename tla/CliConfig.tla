----------------------------- MODULE CliConfig ------------------------------
(***************************************************************************)
(* scripts/opencode-remote-cli.sh on ~/.config/opencode/opencode.json: how *)
(* a command reads the file, what its python program prints of it, and how *)
(* write_config backs the file up and puts the output in its place.        *)
(*                                                                         *)
(* A command is a sequence of processes, each a step, and may be killed    *)
(* between any two.  `set -e' stops it where a process fails, except on    *)
(* the left of a pipe: there the output is written, empty as it may be.    *)
(***************************************************************************)
EXTENDS Integers

CONSTANTS
  Names,       \* names of hosts
  Unreadable,  \* a file that is empty, cut off or no JSON
  None,
  SameSecond,  \* two backups may be made within one second
  DiskFaults,  \* cp and mv may fail halfway
  MaxSecond    \* bound: seconds at which a backup is made

(* What the "plugin" list says.  Its package entry: none, a list of the    *)
(* name alone, or one with a configuration.  An entry that registers the   *)
(* plugin by a local path: none, one assert_supported_config_mode sees (a  *)
(* list whose first element contains /plugin), or one it does not.         *)
Registered == {"none", "seen", "unseen"}
Config == [package : {"none", "bare"}, path : Registered, hosts : {{}}]
            \cup [package : {"full"}, path : Registered, hosts : SUBSET Names]
Content == Config \cup {Unreadable}
Seconds == 0 .. MaxSecond
Command == [name : {"init", "add", "remove"}, host : Names, port : BOOLEAN]
Labels == {"idle", "mode", "plugin", "initialize", "edit", "backup", "move"}

ASSUME CliAssumption ==
  /\ Unreadable \notin Config /\ None \notin Content \cup Command
  /\ SameSecond \in BOOLEAN /\ DiskFaults \in BOOLEAN
  /\ MaxSecond \in Nat

VARIABLES
  config,    \* opencode.json
  backups,   \* backups[s]: opencode.json.backup.<s>, or None
  second,    \* date +%Y%m%d_%H%M%S
  pc, cmd,   \* where the command is, and its arguments
  output,    \* what write_config reads from the pipe
  again,     \* init_plugin was called by add, which goes on after it
  readable   \* history: the last readable content the file had

running == <<pc, cmd, output, again>>
vars == <<config, backups, second, running, readable>>

Init ==
  /\ config \in Config /\ readable = config
  /\ backups = [s \in Seconds |-> None] /\ second = 0
  /\ pc = "idle" /\ cmd = None /\ output = Unreadable /\ again = FALSE

Idle == pc' = "idle" /\ cmd' = None /\ output' = Unreadable /\ again' = FALSE
Goto(l) == pc' = l /\ UNCHANGED <<cmd, output, again>>

-----------------------------------------------------------------------------
(* add (and setup, which calls it), remove, init; list only reads.         *)
Start(c) ==
  /\ pc = "idle" /\ pc' = "mode" /\ cmd' = c
  /\ UNCHANGED <<config, backups, second, output, again, readable>>

(* assert_supported_config_mode: python fails on what is no JSON, and a    *)
(* path entry it sees is refused where there is no package entry.          *)
AssertMode ==
  /\ pc = "mode"
  /\ IF config = Unreadable \/ (config.path = "seen" /\ config.package = "none")
     THEN Idle ELSE Goto("plugin")
  /\ UNCHANGED <<config, backups, second, readable>>

(* has_plugin: add calls init_plugin where there is no entry, remove gives *)
(* up; init has nothing to do where there is one.                          *)
HasPlugin ==
  LET found == config.package # "none" IN
  /\ pc = "plugin"
  /\ \/ found /\ cmd.name # "init" /\ Goto("edit")
     \/ ~ found /\ cmd.name = "init" /\ Goto("initialize")
     \/ ~ found /\ cmd.name = "add" /\ pc' = "initialize" /\ again' = TRUE /\ UNCHANGED <<cmd, output>>
     \/ cmd.name = (IF found THEN "init" ELSE "remove") /\ Idle
  /\ UNCHANGED <<config, backups, second, readable>>

(* init_plugin: the here-document is the program's standard input, so the  *)
(* configuration echoed into the pipe is never read, json.load meets the   *)
(* end of the input, and nothing is printed.                               *)
Initialize ==
  /\ pc = "initialize"
  /\ output' = Unreadable /\ pc' = "backup"
  /\ UNCHANGED <<config, backups, second, cmd, again, readable>>

(* What the python program of add or remove prints: nothing where it       *)
(* raises, on a file that is no JSON, a port that is no number, or         *)
(* entry[1] of a list of one.                                              *)
Edited ==
  IF config = Unreadable THEN Unreadable
  ELSE CASE cmd.name = "add" /\ (~ cmd.port \/ config.package = "bare") -> Unreadable
         [] cmd.name = "add" /\ config.package = "full" -> [config EXCEPT !.hosts = @ \cup {cmd.host}]
         [] cmd.name = "remove" /\ config.package = "full" -> [config EXCEPT !.hosts = @ \ {cmd.host}]
         [] OTHER -> config

Edit ==
  /\ pc = "edit"
  /\ output' = Edited /\ pc' = "backup"
  /\ UNCHANGED <<config, backups, second, cmd, again, readable>>

(* Mutant of Backup: the copy is taken after the move.                     *)
Backup_Late ==
  /\ pc = "backup" /\ second < MaxSecond
  /\ second' = second + 1 /\ backups' = [backups EXCEPT ![second] = output]
  /\ Goto("move")
  /\ UNCHANGED <<config, readable>>

(* backup_config: cp over the backup of the same second, if there is one;  *)
(* where it fails write_config ends, and the command with it.              *)
Backup ==
  /\ pc = "backup" /\ second < MaxSecond
  /\ second' \in IF SameSecond THEN {second, second + 1} ELSE {second + 1}
  /\ \/ backups' = [backups EXCEPT ![second] = config] /\ Goto("move")
     \/ DiskFaults /\ backups' = [backups EXCEPT ![second] = Unreadable] /\ Idle
  /\ UNCHANGED <<config, readable>>

(* Mutant of Move: the command is not over when its last move is.          *)
Move_KeepsArguments ==
  /\ pc = "move"
  /\ config' = output
  /\ pc' = IF again THEN "edit" ELSE "idle"
  /\ UNCHANGED <<backups, second, cmd, output, again, readable>>

(* cat > tmp, then mv, from another file system perhaps: where it is cut   *)
(* off the file is too.  After init_plugin, add goes on.                   *)
Move ==
  /\ pc = "move"
  /\ \/ /\ config' = output
        /\ readable' = IF output = Unreadable THEN readable ELSE output
        /\ IF again THEN pc' = "edit" /\ again' = FALSE /\ UNCHANGED <<cmd, output>> ELSE Idle
     \/ DiskFaults /\ config' = Unreadable /\ Idle /\ UNCHANGED readable
  /\ UNCHANGED <<backups, second>>

(* The command is killed between two processes.                            *)
Kill ==
  /\ pc # "idle" /\ Idle
  /\ UNCHANGED <<config, backups, second, readable>>

(* Between commands, the file is edited, or a backup put back.             *)
UserWrites(c) ==
  /\ pc = "idle"
  /\ config' = c /\ readable' = c
  /\ UNCHANGED <<backups, second, running>>

Next ==
  \/ \E c \in Command : Start(c)
  \/ AssertMode \/ HasPlugin \/ Initialize \/ Edit \/ Backup \/ Move
  \/ Kill
  \/ \E c \in Config : UserWrites(c)

Spec == Init /\ [][Next]_vars

-----------------------------------------------------------------------------
(* Properties.                                                             *)

(* Every variable holds values of its kind, and a command that runs has    *)
(* its arguments and, once past assert_supported_config_mode, a file that  *)
(* was readable when it asked has_plugin.                                  *)
TypeOK ==
  /\ config \in Content /\ readable \in Config
  /\ backups \in [Seconds -> Content \cup {None}]
  /\ second \in Seconds
  /\ pc \in Labels /\ cmd \in Command \cup {None}
  /\ (pc = "idle") <=> (cmd = None)
  /\ pc = "plugin" => config \in Config
  /\ output \in Content /\ again \in BOOLEAN

(* README: "The CLI creates timestamped backups of opencode.json before    *)
(* modifying it": whatever a command wrote, wherever it failed or was      *)
(* killed, the last readable configuration is in the file or in a backup.  *)
Recoverable == readable \in {config} \cup {backups[s] : s \in Seconds}
=============================================================================
