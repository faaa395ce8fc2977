--------------------------- MODULE CliConfigProofs ---------------------------
(***************************************************************************)
(* The config editor, for any host names: what is never lost.              *)
(***************************************************************************)
EXTENDS CliConfig, TLAPS

(* Unreadable is no configuration, and only a whole entry has hosts.       *)
LEMMA ConfigKinds ==
  /\ Unreadable \notin Config
  /\ \A c \in Config : c.package \in {"none", "bare", "full"} /\ c.hosts \subseteq Names
  /\ \A c \in Config : c.package # "full" => c.hosts = {}
  BY CliAssumption DEF Config

(* What a program prints is empty or a configuration.                      *)
LEMMA EditedIsContent ==
  ASSUME config \in Content, cmd \in Command
  PROVE  Edited \in Content
<1>1. CASE config = Unreadable
  BY <1>1 DEF Edited, Content
<1>2. CASE config \in Config /\ config.package = "full"
  <2>1. config \in [package : {"full"}, path : Registered, hosts : SUBSET Names]
    BY <1>2 DEF Config
  <2>2. cmd.host \in Names
    BY DEF Command
  <2>3. /\ [config EXCEPT !.hosts = @ \cup {cmd.host}] \in [package : {"full"}, path : Registered, hosts : SUBSET Names]
        /\ [config EXCEPT !.hosts = @ \ {cmd.host}] \in [package : {"full"}, path : Registered, hosts : SUBSET Names]
    BY <2>1, <2>2
  <2> QED BY <1>2, <2>1, <2>3, ConfigKinds DEF Edited, Content, Config
<1>3. CASE config \in Config /\ config.package # "full"
  BY <1>3, ConfigKinds DEF Edited, Content
<1> QED BY <1>1, <1>2, <1>3 DEF Content

(* No step of a command, of the user or of a fault leaves the types.       *)
LEMMA TypeSteps == TypeOK /\ [Next]_vars => TypeOK'
<1> SUFFICES ASSUME TypeOK, [Next]_vars PROVE TypeOK'
  OBVIOUS
<1> USE CliAssumption DEF TypeOK
<1>1. ASSUME NEW c \in Command, Start(c) PROVE TypeOK'
  BY <1>1 DEF Start, Labels
<1>2. CASE AssertMode
  BY <1>2 DEF AssertMode, Idle, Goto, Labels, Content
<1>3. CASE HasPlugin
  BY <1>3 DEF HasPlugin, Idle, Goto, Labels, Content
<1>4. CASE Initialize
  BY <1>4 DEF Initialize, Labels, Content
<1>5. CASE Edit
  <2>1. Edited \in Content
    BY <1>5, EditedIsContent DEF Edit
  <2> QED BY <1>5, <2>1 DEF Edit, Labels
<1>6. CASE Backup
  <2>1. second' \in Seconds
    BY <1>6 DEF Backup, Seconds
  <2>2. backups' \in [Seconds -> Content \cup {None}]
    BY <1>6 DEF Backup, Content
  <2> QED BY <1>6, <2>1, <2>2 DEF Backup, Goto, Idle, Labels, Content
<1>7. CASE Move
  <2>1. config' \in Content /\ readable' \in Config
    BY <1>7 DEF Move, Content
  <2> QED BY <1>7, <2>1 DEF Move, Idle, Labels, Content
<1>8. CASE Kill
  BY <1>8 DEF Kill, Idle, Labels, Content
<1>9. ASSUME NEW c \in Config, UserWrites(c) PROVE TypeOK'
  BY <1>9 DEF UserWrites, running, Content, Labels
<1>10. CASE UNCHANGED vars
  BY <1>10 DEF vars, running
<1> QED
  BY <1>1, <1>2, <1>3, <1>4, <1>5, <1>6, <1>7, <1>8, <1>9, <1>10 DEF Next

(* Files, backups and the command's own state keep their types.            *)
THEOREM TypeCorrect == Spec => []TypeOK
<1>1. ASSUME Init PROVE TypeOK
  <2>1. second \in Seconds
    BY <1>1, CliAssumption DEF Init, Seconds
  <2>2. backups \in [Seconds -> Content \cup {None}]
    BY <1>1 DEF Init
  <2> QED BY <1>1, <2>1, <2>2 DEF Init, TypeOK, Content, Labels
<1> QED BY <1>1, TypeSteps, PTL DEF Spec

-----------------------------------------------------------------------------
(* When two backups are never made in one second, each goes into a file of *)
(* its own, and by the time a command moves its output into place the last *)
(* readable configuration is in one of them.                               *)
BackedUp == \E s \in Seconds : backups[s] = readable
RecoverInv ==
  /\ Recoverable
  /\ \A s \in Seconds : s >= second => backups[s] = None
  /\ pc = "move" => BackedUp

(* No step of a command loses the last readable configuration, wherever it *)
(* stops, while backups have names of their own.                           *)
LEMMA RecoverSteps ==
  ASSUME SameSecond = FALSE, TypeOK, RecoverInv, [Next]_vars
  PROVE  RecoverInv'
<1> USE DEF RecoverInv
<1>1. Recoverable <=> readable = config \/ BackedUp
  BY DEF Recoverable, BackedUp
<1>2. Recoverable' <=> readable' = config' \/ BackedUp'
  BY DEF Recoverable, BackedUp
<1>3. CASE UNCHANGED <<config, backups, second, readable>> /\ pc' # "move"
  BY <1>1, <1>2, <1>3 DEF BackedUp
<1>4. CASE Backup
  <2>1. second' = second + 1 /\ UNCHANGED <<config, readable>>
    BY <1>4 DEF Backup
  <2>2. readable # None /\ second \in Seconds /\ backups[second] = None
    BY <1>4, CliAssumption DEF TypeOK, Content, Backup, Seconds
  <2>3. \E x \in {config, Unreadable} : backups' = [backups EXCEPT ![second] = x]
    BY <1>4 DEF Backup
  <2>4. \A s \in Seconds : s >= second + 1 => backups'[s] = None
    BY <2>2, <2>3 DEF TypeOK, Seconds
  <2>5. BackedUp => BackedUp'
    BY <2>1, <2>2, <2>3 DEF BackedUp, TypeOK
  <2>6. pc' = "move" /\ readable = config => BackedUp'
    <3> SUFFICES ASSUME pc' = "move", readable = config PROVE BackedUp'
      OBVIOUS
    <3>1. backups' = [backups EXCEPT ![second] = config]
      BY <1>4 DEF Backup, Idle
    <3> QED BY <2>1, <2>2, <3>1 DEF BackedUp, TypeOK
  <2> QED BY <1>1, <1>2, <2>1, <2>4, <2>5, <2>6
<1>5. CASE Move
  <2>1. BackedUp /\ UNCHANGED <<backups, second>> /\ pc' # "move"
    BY <1>5 DEF Move, Idle
  <2>2. readable' = readable \/ readable' = config'
    BY <1>5 DEF Move
  <2> QED BY <1>2, <2>1, <2>2 DEF BackedUp
<1>6. ASSUME NEW c \in Config, UserWrites(c) PROVE RecoverInv'
  BY <1>2, <1>6 DEF UserWrites, running, BackedUp
<1>7. CASE UNCHANGED vars
  BY <1>1, <1>2, <1>7 DEF vars, running, BackedUp
<1>8. ASSUME (\E c \in Command : Start(c)) \/ AssertMode \/ HasPlugin \/ Initialize \/ Edit \/ Kill
      PROVE  UNCHANGED <<config, backups, second, readable>> /\ pc' # "move"
  <2>1. CASE HasPlugin
    BY <2>1 DEF HasPlugin, Idle, Goto, TypeOK, Command
  <2> QED BY <1>8, <2>1 DEF Start, AssertMode, Initialize, Edit, Kill, Idle, Goto
<1> QED BY <1>3, <1>4, <1>5, <1>6, <1>7, <1>8 DEF Next

(* Wherever a command fails or is killed, and even where its program       *)
(* prints nothing and opencode.json is emptied, the last readable          *)
(* configuration can be put back, unless two backups share a second.       *)
THEOREM NothingIsLost ==
  ASSUME SameSecond = FALSE
  PROVE  Spec => []Recoverable
<1>1. Init => RecoverInv
  BY DEF Init, RecoverInv, Recoverable, BackedUp
<1>2. TypeOK /\ RecoverInv /\ [Next]_vars => RecoverInv'
  BY RecoverSteps
<1>3. RecoverInv => Recoverable
  BY DEF RecoverInv
<1> QED BY <1>1, <1>2, <1>3, TypeCorrect, PTL DEF Spec

=============================================================================
