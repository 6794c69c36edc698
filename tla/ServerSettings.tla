--------------------------- MODULE ServerSettings ---------------------------
(* nullain.toml as "nullain mcp add" and "nullain mcp remove" edit it: a      *)
(* parser and a writer of their own for the tables of the MCP servers         *)
(* (cli.py), next to the TOML parser with which everyone else reads the file  *)
(* (config/settings.py). A file is its tables; env and comments are left out. *)
EXTENDS Naturals, Sequences, Functions, SequencesExt

CONSTANTS
  Names,     \* the names of MCP servers
  Launches,  \* the commands of servers
  NoLaunch,  \* an empty command
  Options,   \* the arguments of servers
  NoOptions, \* no arguments
  Tomls      \* the tables of the files a person wrote

VARIABLES
  file,     \* the tables of the file
  wrote,    \* the tables of the file when the person left it
  intended  \* by name, what each server is meant to be after the edits

nvars == <<file, wrote, intended>>

\* The tables [mcp.servers], [mcp.servers.<name>] and any other.
Bare == [head |-> "bare", name |-> "", keys |-> [k \in {} |-> {}]]
ServerTable(n, keys) == [head |-> "server", name |-> n, keys |-> keys]

Others(tables) == SelectSeq(tables, LAMBDA t : t.head = "other")

Get(keys, k, default) == IF k \in DOMAIN keys THEN keys[k] ELSE default

\* What the keys of a server mean to the program.
Server(keys) ==
  [command |-> Get(keys, "command", NoLaunch), args |-> Get(keys, "args", NoOptions),
   auto_approve |-> Get(keys, "auto_approve", FALSE), enabled |-> Get(keys, "enabled", TRUE)]
-----------------------------------------------------------------------------
(* Reading by the TOML parser                                                *)

\* No table is declared twice, and every server has a command.
Loads(tables) ==
  /\ \A i, j \in DOMAIN tables :
       tables[i].head = tables[j].head /\ tables[i].name = tables[j].name => i = j
  /\ \A i \in DOMAIN tables :
       tables[i].head = "server" => "command" \in DOMAIN tables[i].keys

Meaning(tables) ==
  [n \in {t.name : t \in {u \in Range(tables) : u.head = "server"}} |->
     Server((CHOOSE t \in Range(tables) : t.head = "server" /\ t.name = n).keys)]

SettingsInit ==
  /\ wrote \in {f \in Tomls : Loads(f)}
  /\ file = wrote /\ intended = Meaning(wrote)
-----------------------------------------------------------------------------
(* Editing by the command line                                               *)

Updated(keys, more) ==
  [k \in DOMAIN keys \cup DOMAIN more |-> IF k \in DOMAIN more THEN more[k] ELSE keys[k]]

PlaceOf(servers, n) ==
  IF \E i \in DOMAIN servers : servers[i].name = n
    THEN CHOOSE i \in DOMAIN servers : servers[i].name = n ELSE 0

\* The keys of the server n, over the ones it had.
Assigned(servers, n, keys) ==
  LET i == PlaceOf(servers, n)
  IN  IF i = 0 THEN Append(servers, ServerTable(n, keys))
      ELSE [servers EXCEPT ![i].keys = Updated(@, keys)]

\* Keys belong to the server whose table came last, whatever table they are in.
ReadTable(t, sofar) ==
  CASE t.head = "server" ->
         [servers |-> Assigned(sofar.servers, t.name, t.keys), current |-> <<t.name>>]
    [] t.head # "server" /\ sofar.current # <<>> ->
         [sofar EXCEPT !.servers = Assigned(@, sofar.current[1], t.keys)]
    [] OTHER -> sofar

\* The servers in the order of their tables, which is the order of the dict.
ParseServers(tables) ==
  FoldLeft(LAMBDA sofar, t : ReadTable(t, sofar), [servers |-> <<>>, current |-> <<>>],
           tables).servers

WrittenKeys(server) ==
  LET always == [command |-> server.command, auto_approve |-> server.auto_approve,
                 enabled |-> server.enabled]
  IN  IF server.args = NoOptions THEN always ELSE Updated(always, [args |-> server.args])

\* Mutant of Serialize: only what was said of a server is written of it.
SerializeBare(servers) ==
  <<Bare>> \o [i \in DOMAIN servers |->
                 ServerTable(servers[i].name, [command |-> Server(servers[i].keys).command])]

Serialize(servers) ==
  <<Bare>> \o [i \in DOMAIN servers |->
                 ServerTable(servers[i].name, WrittenKeys(Server(servers[i].keys)))]

\* The block goes from [mcp.servers] to the next table that is not of a server.
BlockStart(tables) == SelectInSeq(tables, LAMBDA t : t.head = "bare")
BlockEnd(tables) ==
  LET start == BlockStart(tables)
  IN  start + SelectInSeq(Append(SubSeq(tables, start + 1, Len(tables)),
                                 [head |-> "other", name |-> "", keys |-> <<>>]),
                          LAMBDA t : t.head = "other")

\* Mutant of Replaced: what follows the block is lost.
ReplacedTail(tables, block) ==
  IF BlockStart(tables) = 0 THEN tables \o block
  ELSE SubSeq(tables, 1, BlockStart(tables) - 1) \o block

Replaced(tables, block) ==
  IF BlockStart(tables) = 0 THEN tables \o block
  ELSE SubSeq(tables, 1, BlockStart(tables) - 1) \o block
         \o SubSeq(tables, BlockEnd(tables), Len(tables))

Writes(servers) == file' = Replaced(file, Serialize(servers)) /\ UNCHANGED wrote

\* Arguments that are not given leave those of the entry.
AddServer(n, command, args, auto, enabled) ==
  LET said == [command |-> command, auto_approve |-> auto, enabled |-> enabled]
      before == IF n \in DOMAIN intended THEN intended[n] ELSE Server(<<>>)
  IN  /\ Writes(Assigned(ParseServers(file), n,
                         IF args = NoOptions THEN said ELSE Updated(said, [args |-> args])))
      /\ intended' = Updated(intended, [m \in {n} |->
           Updated(said, [args |-> IF args = NoOptions THEN before.args ELSE args])])

RemoveServer(n) ==
  /\ Writes(SelectSeq(ParseServers(file), LAMBDA s : s.name # n))
  /\ intended' = [m \in DOMAIN intended \ {n} |-> intended[m]]

SettingsNext ==
  \E n \in Names :
    \/ RemoveServer(n)
    \/ \E command \in Launches, args \in Options \cup {NoOptions}, auto, enabled \in BOOLEAN :
         AddServer(n, command, args, auto, enabled)
-----------------------------------------------------------------------------
SettingsTypeOK ==
  /\ wrote \in Tomls /\ DOMAIN intended \subseteq Names
  /\ \A i \in DOMAIN file : file[i].head \in {"bare", "server", "other"}

\* After any sequence of edits the program reads in the file exactly the servers
\* that are meant (docs/configuration.md: "Manage these from the CLI").
EditsTaken == Loads(file) /\ Meaning(file) = intended

\* The edits leave the other tables of the file as they were, in their order
\* (cli.py: "Preserves everything before the section and every top-level section
\* after it").
OthersKept == Others(file) = Others(wrote)

\* The tables of the servers follow the line [mcp.servers], with no other between.
InOneBlock(tables) ==
  \A i \in DOMAIN tables :
    tables[i].head = "server" =>
      BlockStart(tables) # 0 /\ i \in BlockStart(tables) + 1 .. BlockEnd(tables) - 1

\* No table after that line has a key by the name of one of a server's.
NoKeysAfter(tables) ==
  \A i \in DOMAIN tables :
    BlockStart(tables) \notin {0, i} /\ i > BlockStart(tables) /\ tables[i].head = "other" =>
      DOMAIN tables[i].keys \cap {"command", "args", "auto_approve", "enabled"} = {}

\* An edit leaves the other tables alone, wherever they are. Of a file whose servers
\* are in one block it makes a file that loads, with the servers that are meant;
\* each of them is what is meant if no other table after the block has their keys.
SettingsLaw ==
  /\ OthersKept
  /\ InOneBlock(wrote) => Loads(file) /\ DOMAIN Meaning(file) = DOMAIN intended
  /\ InOneBlock(wrote) /\ NoKeysAfter(wrote) => EditsTaken
=============================================================================
