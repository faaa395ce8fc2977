----------------------------- MODULE HostLeases -----------------------------
(***************************************************************************)
(* The lease table: LeaseManager of plugin/src/leases.ts, in exclusive     *)
(* mode, and the host selection of ProviderRegistry in                     *)
(* plugin/src/provider.ts that fills it.  Both run without an await, so    *)
(* each call is one function of the table.                                 *)
(***************************************************************************)
CONSTANTS
  Hosts,        \* the configured hosts of the provider
  Workspaces,   \* workspace ids
  None          \* no lease; no host named

(* resolveWithLease, the candidates: the host that was named, if it is     *)
(* configured, or every host.                                              *)
Candidates(host) == IF host = None THEN Hosts ELSE {host} \cap Hosts

(* Mutants of Selectable: another workspace's lease is no obstacle; one's  *)
(* own lease is one.                                                       *)
Selectable_AnyHost(table, w, cands) ==
  IF \E h \in cands : table[h] = w THEN {h \in cands : table[h] = w} ELSE cands

Selectable_FreeOnly(table, w, cands) == {h \in cands : table[h] = None}

(* resolveWithLease, the choice: a candidate the workspace holds already,  *)
(* else one acquire does not throw for; none is the "already leased" or    *)
(* "not found" error.  Which one comes first is the order of the config.   *)
Selectable(table, w, cands) ==
  IF \E h \in cands : table[h] = w
  THEN {h \in cands : table[h] = w}
  ELSE {h \in cands : table[h] = None}

(* acquire, for a host selected as above.                                  *)
Acquired(table, h, w) == [table EXCEPT ![h] = w]

(* Mutant of Released: whoever asks, the lease goes.                       *)
Released_AnyOwner(table, h, w) == [table EXCEPT ![h] = None]

(* release: only its owner gives a lease back.                             *)
Released(table, h, w) == IF table[h] = w THEN [table EXCEPT ![h] = None] ELSE table

(* clear, then restore for each stored binding: where several name one     *)
(* host, the last of them has the lease.                                   *)
Restored(bound) ==
  {t \in [Hosts -> Workspaces \cup {None}] :
     \A h \in Hosts : LET ws == {b.ws : b \in {c \in bound : c.host = h}}
                      IN  t[h] \in IF ws = {} THEN {None} ELSE ws}
=============================================================================
