------------------------------ MODULE FlowTable -----------------------------
(***************************************************************************)
(* What the two flow trackers have in common: the ports of TCP and UDP,    *)
(* and ct_flow_table, which the kernel keeps: entries that the datapath    *)
(* adds on a miss and that age out, and entries of the control plane,      *)
(* which stay.  What a key is made of differs between the two programs.    *)
(***************************************************************************)
EXTENDS Pna, FiniteSets

CONSTANTS
  TEntries,     \* tentries: how many entries ct_flow_table holds
  IdleTimeout   \* aging time of timer profile 0, in ticks

ASSUME TEntriesAssumption == TEntries \in Nat \ {0}
ASSUME IdleTimeoutAssumption == IdleTimeout \in Nat \ {0}

VARIABLE
  table         \* ct_flow_table: a function from the keys entered to entries

vars == <<pnaVars, table>>

-----------------------------------------------------------------------------
L4Len == 4      \* tcp_t and udp_t hold the two ports only

TCP_PROTO == 6
UDP_PROTO == 17

L4Header == [valid : BOOLEAN, srcPort : U16, dstPort : U16]

ZeroL4 == [valid |-> FALSE, srcPort |-> 0, dstPort |-> 0]

\* extract() of the ports.
Ports4(f) == [valid |-> TRUE, srcPort |-> load_half(f.sport), dstPort |-> load_half(f.dport)]

-----------------------------------------------------------------------------
(* The table *)

\* An entry: its age in ticks, and whether it was added by the datapath,
\* under a timer profile, or is permanent.
Entry == [age : 0 .. IdleTimeout, dynamic : BOOLEAN]

Put(t, k, e) == [x \in DOMAIN t \cup {k} |-> IF x = k THEN e ELSE t[x]]

Remove(t, k) == [x \in DOMAIN t \ {k} |-> t[x]]

\* bpf_p4tc_tbl_read: a hit restarts the entry's idle timer.
Refresh(t, k) == Put(t, k, [age |-> 0, dynamic |-> t[k].dynamic])

\* update_params of add_entry: timer profile 0.
NewEntryNoProfile == [age |-> 0, dynamic |-> FALSE]
NewEntry == [age |-> 0, dynamic |-> TRUE]

\* bpf_p4tc_entry_create_on_miss: fails when the key is there already or
\* the table is full; the program ignores what it returns.
CreateOnMiss(t, k) ==
  IF k \in DOMAIN t \/ Cardinality(DOMAIN t) >= TEntries
    THEN t
    ELSE Put(t, k, NewEntry)

-----------------------------------------------------------------------------
\* Time passes; an entry that has reached the timeout waits to be removed.
Tick ==
  /\ \E k \in DOMAIN table : table[k].dynamic /\ table[k].age < IdleTimeout
  /\ table' = [k \in DOMAIN table |->
                 IF table[k].dynamic /\ table[k].age < IdleTimeout
                   THEN [age |-> table[k].age + 1, dynamic |-> TRUE] ELSE table[k]]
  /\ UNCHANGED pnaVars

\* The idle timer of an entry fires.
Expire(k) ==
  /\ k \in DOMAIN table
  /\ table[k].dynamic /\ table[k].age = IdleTimeout
  /\ table' = Remove(table, k)
  /\ UNCHANGED pnaVars

\* The control plane deletes an entry, or enters a permanent one.
CtrlDelete(k) ==
  /\ k \in DOMAIN table
  /\ table' = Remove(table, k)
  /\ UNCHANGED pnaVars

CtrlCreate(k) ==
  /\ k \notin DOMAIN table /\ Cardinality(DOMAIN table) < TEntries
  /\ table' = Put(table, k, [age |-> 0, dynamic |-> FALSE])
  /\ UNCHANGED pnaVars

-----------------------------------------------------------------------------
\* What Tracker sees of the fate of a packet.
FateOf(l, b) ==
  CASE l = "stack" -> "delivered"
    [] l = "dropped" -> "dropped"
    [] l = "sent" -> "sent"
    [] OTHER -> IF b.pass_to_kernel THEN "tracked" ELSE "pending"

AbstractFate == [s \in Skbs |-> FateOf(loc[s], cb[s])]
=============================================================================
