-------------------------- MODULE TopologyRegistry --------------------------
(***************************************************************************)
(* The process-local topology registry (zipc.c): pools and transports      *)
(* bound by name, links registered from static data, text or a file, and   *)
(* the older table that is registered as a whole.                          *)
(***************************************************************************)
EXTENDS Naturals, Sequences, FiniteSets, Functions

CONSTANTS
  LinkNames, ResourceNames,
  Unset,            \* a name the configuration leaves out
  ComponentIds,     \* ids that zipc_component_id_valid accepts
  Configs,          \* configurations: sequences of link entries
  Tables,           \* tables for zipc_topology_register
  MaxLinks, MaxPools, MaxTransports   \* capacities of the registry

ASSUME TopologyAssumption ==
  /\ Unset \notin LinkNames \cup ResourceNames
  /\ MaxLinks \in Nat \ {0} /\ MaxPools \in Nat /\ MaxTransports \in Nat

VARIABLES
  pools, transports,  \* names bound to a pool, to a transport
  links,              \* g_topology_links, in order
  legacy,             \* g_legacy_topology_definitions
  overridden          \* history: OVERRIDE has changed the links since the reset

registry == <<pools, transports, links, legacy, overridden>>

Policies == {"REJECT_DUPLICATES", "EXTEND", "OVERRIDE"}
Roles == {"UNSPECIFIED", "PRODUCER", "CONSUMER"}

\* Every static is zero when the process starts.
RegistryInit ==
  /\ pools = {} /\ transports = {} /\ links = <<>> /\ legacy = <<>>
  /\ overridden = FALSE

Reset ==
  /\ pools' = {} /\ transports' = {} /\ links' = <<>> /\ legacy' = <<>>
  /\ overridden' = FALSE

\* Binding a bound name replaces its resource; a new name needs room.
BindPool(name) ==
  /\ name \in pools \/ Cardinality(pools) < MaxPools
  /\ pools' = pools \cup {name}
  /\ UNCHANGED <<transports, links, legacy, overridden>>

BindTransport(name) ==
  /\ name \in transports \/ Cardinality(transports) < MaxTransports
  /\ transports' = transports \cup {name}
  /\ UNCHANGED <<pools, links, legacy, overridden>>

(***************************************************************************)
(* Validation and registration.                                            *)
(***************************************************************************)
EntryValid(l) ==
  /\ l.name \in LinkNames
  /\ l.id # 0
  /\ {l.local, l.remote} \subseteq ComponentIds
  /\ l.role \in Roles
  /\ l.local # l.remote
  /\ l.pool \in pools
  /\ l.transport \in transports

Validate(config) ==
  /\ Len(config) \in 1..MaxLinks
  /\ \A i \in DOMAIN config : EntryValid(config[i])
  /\ \A i, j \in DOMAIN config :
       i # j => config[i].name # config[j].name /\ config[i].id # config[j].id

\* The first entry with a value in a field, 0 when there is none.
FirstWith(entries, field, value) ==
  LET found == {i \in DOMAIN entries : entries[i][field] = value}
  IN IF found = {} THEN 0 ELSE CHOOSE i \in found : \A j \in found : i <= j

RegisterLinkIdFirst(done, l, policy) ==
  LET byName == FirstWith(done.links, "name", l.name)
      byId == FirstWith(done.links, "id", l.id)
      match == IF byId # 0 THEN byId ELSE byName
  IN CASE ~done.ok -> done
       [] done.ok /\ match # 0 /\ policy = "OVERRIDE" ->
            [done EXCEPT !.links[match] = l]
       [] done.ok /\ match = 0 /\ Len(done.links) < MaxLinks ->
            [done EXCEPT !.links = Append(@, l)]
       [] OTHER -> [done EXCEPT !.ok = FALSE]

RegisterLinkAnyPolicy(done, l, policy) ==
  LET match == FirstWith(done.links, "name", l.name)
  IN CASE ~done.ok -> done
       [] done.ok /\ match # 0 -> [done EXCEPT !.links[match] = l]
       [] done.ok /\ match = 0 /\ Len(done.links) < MaxLinks ->
            [done EXCEPT !.links = Append(@, l)]
       [] OTHER -> [done EXCEPT !.ok = FALSE]

\* One entry: an entry of that name, else the first of that id, is replaced
\* by OVERRIDE and refused otherwise; a new one needs room.  The loop ends
\* with the first refusal and keeps what it has registered.
RegisterLink(done, l, policy) ==
  LET byName == FirstWith(done.links, "name", l.name)
      byId == FirstWith(done.links, "id", l.id)
      match == IF byName # 0 THEN byName ELSE byId
  IN CASE ~done.ok -> done
       [] done.ok /\ match # 0 /\ policy = "OVERRIDE" ->
            [done EXCEPT !.links[match] = l]
       [] done.ok /\ match = 0 /\ Len(done.links) < MaxLinks ->
            [done EXCEPT !.links = Append(@, l)]
       [] OTHER -> [done EXCEPT !.ok = FALSE]

RegisterConfig(config, policy) ==
  LET done[i \in 0..Len(config)] ==
        IF i = 0 THEN [ok |-> Validate(config), links |-> links]
        ELSE RegisterLink(done[i - 1], config[i], policy)
  IN done[Len(config)]

(***************************************************************************)
(* The text form.  A line is a section header, a key or neither; blank     *)
(* lines and comments are skipped before they get here.                    *)
(***************************************************************************)
Section(kind, name) == [line |-> "section", kind |-> kind, name |-> name]
Key(key, value) == [line |-> "key", key |-> key, value |-> value]

KeyOrder == <<"id", "pool", "transport", "local", "remote", "epoch", "role">>
Keys == Range(KeyOrder)

\* memset of the parsed array: what a section does not set is zero.
NoEntry == [name |-> Unset, id |-> 0, pool |-> Unset, transport |-> Unset,
            local |-> 0, remote |-> 0, epoch |-> 0, role |-> "UNSPECIFIED"]

ParseLineKeepsSection(parse, line) ==
  CASE parse.ok /\ line.line = "section" /\ line.kind = "link" ->
         IF line.name \in LinkNames /\ Len(parse.entries) < MaxLinks
         THEN [parse EXCEPT !.current = TRUE,
                 !.entries = Append(@, [NoEntry EXCEPT !.name = line.name])]
         ELSE [parse EXCEPT !.ok = FALSE]
    [] parse.ok /\ parse.current /\ line.line = "key" ->
         IF line.key \in Keys
         THEN [parse EXCEPT !.entries[Len(parse.entries)][line.key] = line.value]
         ELSE [parse EXCEPT !.ok = FALSE]
    [] parse.ok /\ parse.current /\ line.line = "other" ->
         [parse EXCEPT !.ok = FALSE]
    [] OTHER -> parse

\* A [link.X] section opens an entry; another section closes it, and lines
\* outside of link sections are skipped.
ParseLine(parse, line) ==
  CASE parse.ok /\ line.line = "section" /\ line.kind = "link" ->
         IF line.name \in LinkNames /\ Len(parse.entries) < MaxLinks
         THEN [parse EXCEPT !.current = TRUE,
                 !.entries = Append(@, [NoEntry EXCEPT !.name = line.name])]
         ELSE [parse EXCEPT !.ok = FALSE]
    [] parse.ok /\ line.line = "section" /\ line.kind # "link" ->
         [parse EXCEPT !.current = FALSE]
    [] parse.ok /\ parse.current /\ line.line = "key" ->
         IF line.key \in Keys
         THEN [parse EXCEPT !.entries[Len(parse.entries)][line.key] = line.value]
         ELSE [parse EXCEPT !.ok = FALSE]
    [] parse.ok /\ parse.current /\ line.line = "other" ->
         [parse EXCEPT !.ok = FALSE]
    [] OTHER -> parse

Parse(text) ==
  LET parse[i \in 0..Len(text)] ==
        IF i = 0 THEN [ok |-> TRUE, current |-> FALSE, entries |-> <<>>]
        ELSE ParseLine(parse[i - 1], text[i])
  IN parse[Len(text)]

\* What an operator writes for a configuration, with a section and keys of
\* another program around it.
Render(config) ==
  LET lines(l) ==
        LET set == SelectSeq(KeyOrder, LAMBDA k : l[k] # NoEntry[k])
        IN <<Section("link", l.name)>>
           \o [i \in DOMAIN set |-> Key(set[i], l[set[i]])]
           \o <<Section("window", Unset), Key("id", 0), Key("colour", 1)>>
      text[i \in 0..Len(config)] ==
        IF i = 0 THEN <<Key("colour", 1)>> ELSE text[i - 1] \o lines(config[i])
  IN text[Len(config)]

\* The texts of the configurations, as they are parsed.
Texts == [c \in Configs |-> Parse(Render(c))]

\* A text without a link section is refused, as is an empty configuration.
LoadString(parse, policy) ==
  IF parse.ok THEN RegisterConfig(parse.entries, policy)
              ELSE [ok |-> FALSE, links |-> links]

(***************************************************************************)
(* The calls.                                                              *)
(***************************************************************************)
Register(config, policy) ==
  /\ links' = RegisterConfig(config, policy).links
  /\ overridden' = (overridden \/ (policy = "OVERRIDE" /\ links' # links))
  /\ UNCHANGED <<pools, transports, legacy>>

\* zipc_topology_load_string, and zipc_topology_load_file, which can also fail
\* to read the file.
LoadText(parse, policy) ==
  /\ links' = LoadString(parse, policy).links
  /\ overridden' = (overridden \/ (policy = "OVERRIDE" /\ links' # links))
  /\ UNCHANGED <<pools, transports, legacy>>

TableValid(table) ==
  /\ table # <<>>
  /\ \A i \in DOMAIN table :
       /\ {table[i].local, table[i].remote} \subseteq ComponentIds
       /\ table[i].local # table[i].remote
  /\ \A i, j \in DOMAIN table : i # j => table[i].name # table[j].name

\* zipc_topology_register keeps a pointer to the caller's table.
RegisterTable(table) ==
  /\ TableValid(table)
  /\ legacy' = table
  /\ UNCHANGED <<pools, transports, links, overridden>>

RegistryNext ==
  \/ Reset
  \/ \E n \in ResourceNames : BindPool(n) \/ BindTransport(n)
  \/ \E c \in Configs, p \in Policies : Register(c, p) \/ LoadText(Texts[c], p)
  \/ \E t \in Tables : RegisterTable(t)

\* zipc_link_open looks in the registry, then in the table; the resources of
\* an entry are looked up when it is opened.
LookUp(name) ==
  LET i == FirstWith(links, "name", name)
      j == FirstWith(legacy, "name", name)
  IN CASE i # 0 -> IF links[i].pool \in pools /\ links[i].transport \in transports
                   THEN <<links[i]>> ELSE <<>>
       [] i = 0 /\ j # 0 -> <<legacy[j]>>
       [] OTHER -> <<>>

(***************************************************************************)
(* Properties.                                                             *)
(***************************************************************************)
\* A name means one link, however registrations and replacements by name and
\* by id follow each other; so does an id as long as nothing was replaced.
EntriesDistinct ==
  \A i, j \in DOMAIN links :
    i # j => /\ links[i].name # links[j].name
             /\ ~overridden => links[i].id # links[j].id

\* "There is no silent precedence": without OVERRIDE a registration, also one
\* that is refused half way, leaves the entries it finds as they are, and what
\* it leaves behind is the beginning of its configuration, all of it when it
\* returns OK.
EntriesKept ==
  \A c \in Configs, p \in Policies \ {"OVERRIDE"} :
    \E n \in 0..Len(c) :
      LET done == RegisterConfig(c, p)
      IN /\ done.links = links \o SubSeq(c, 1, n)
         /\ done.ok <=> n = Len(c) /\ n > 0

\* "Static, string and file topology sources share one canonical registry":
\* in every state, loading the text of a configuration has the outcome of
\* registering it.
SourcesAgree ==
  \A c \in Configs, p \in Policies :
    LoadString(Texts[c], p) = RegisterConfig(c, p)
=============================================================================
