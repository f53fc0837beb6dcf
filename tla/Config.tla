------------------------------- MODULE Config -------------------------------
(***************************************************************************)
(* Reading config.toml (internal/config/config.go) and starting up with it *)
(* (main.go).  The parser knows no array of tables: the header of a table  *)
(* only selects a section, and the entries of [[keys]], [[nodes]] and      *)
(* [[webhooks]] are told apart by the line that starts a new one.  A file  *)
(* is a sequence of tables, a table its name and its sequence of pairs; a  *)
(* comment, a blank line and a line without "=" are no pairs.              *)
(***************************************************************************)
EXTENDS Integers, Sequences, SequencesExt

CONSTANTS
  ConfigFiles,  \* the files that may be found
  Atoi,         \* the texts that are integers, with their values
  ShortTexts,   \* the texts of less than 12 characters
  Overrides     \* the host and port flags: [host, port], "" and 0 where unset

isSeq(s) == s \in Seq({s[i] : i \in DOMAIN s})

ASSUME FilesAssumption ==
  \A f \in ConfigFiles : isSeq(f) /\ \A i \in DOMAIN f : isSeq(f[i].pairs)

VARIABLES
  phase,  \* loading, serving or refused (the process exits)
  file,   \* the file being read
  conf    \* the *Config

configVars == <<phase, file, conf>>

Default ==
  [server |-> [host |-> "127.0.0.1", port |-> 8080, tls_cert |-> "", tls_key |-> "",
               read_timeout_seconds |-> 0, write_timeout_seconds |-> 0,
               idle_timeout_seconds |-> 0, sftp_enabled |-> TRUE,
               sftp_host |-> "0.0.0.0", sftp_port |-> 2022],
   rate_limit |-> [ip_tps |-> 25, ip_burst |-> 50, key_tps |-> 10, key_burst |-> 30,
                   max_clients |-> 4096],
   remote |-> [metrics_requires_auth |-> TRUE],
   panel |-> [url |-> "", token_id |-> "", token |-> ""],
   keys |-> <<>>, nodes |-> <<>>, webhooks |-> <<>>]

Flags == {"sftp_enabled", "metrics_requires_auth", "enabled"}
Numbers == DOMAIN Default.rate_limit \cup
  {"port", "read_timeout_seconds", "write_timeout_seconds", "idle_timeout_seconds", "sftp_port"}

parseBool(value) == value \in {"1", "true", "yes", "on", "y"}

\* What a field holds after the pair key = value; what is no integer is passed over.
parsed(key, value, old) ==
  CASE key \in Flags   -> parseBool(value)
    [] key \in Numbers -> IF value \in DOMAIN Atoi THEN Atoi[value] ELSE old
    [] key = "events"  -> Append(old, value)
    [] OTHER           -> value

\* An entry of an array of tables when its first line is read, and the name of
\* that line.
blank == [keys |-> [name |-> "", key |-> "", role |-> ""],
          nodes |-> [name |-> "", address |-> "", token |-> "", enabled |-> FALSE],
          webhooks |-> [url |-> "", name |-> "", events |-> <<>>, secret |-> "",
                        enabled |-> FALSE]]
starts == [keys |-> "name", nodes |-> "name", webhooks |-> "url"]

\* consumeKey, consumeNode and consumeWebhook.
consume(section, entries, pair) ==
  IF pair.key = starts[section]
  THEN Append(entries, [blank[section] EXCEPT ![pair.key] = pair.value])
  ELSE IF entries = <<>> \/ pair.key \notin DOMAIN blank[section] THEN entries
  ELSE [entries EXCEPT ![Len(entries)][pair.key] = parsed(pair.key, pair.value, @)]

readPair(section, c, pair) ==
  CASE section \in DOMAIN starts ->
         [c EXCEPT ![section] = consume(section, @, pair)]
    [] section \in {"server", "rate_limit", "remote", "panel"} ->
         IF pair.key \notin DOMAIN c[section] THEN c
         ELSE [c EXCEPT ![section][pair.key] = parsed(pair.key, pair.value, @)]
    [] OTHER -> c

\* What a configuration becomes when the pairs of a table, and the tables of a
\* file, are read one after the other.
readTable(c, table) ==
  LET upTo[n \in 0..Len(table.pairs)] ==
        IF n = 0 THEN c ELSE readPair(table.name, upTo[n - 1], table.pairs[n])
  IN upTo[Len(table.pairs)]

Load(tables) ==
  LET upTo[n \in 0..Len(tables)] ==
        IF n = 0 THEN Default ELSE readTable(upTo[n - 1], tables[n])
  IN upTo[Len(tables)]

isExternal(host) == host \notin {"localhost", "127.0.0.1", "::1"}

isPlaceholderKey(key) ==
  key \in {"change-me", "changeme", "secret", "password", "admin", "token", "key", "test",
           "123456", "password123"}

portInRange(port) == port \in 1..65535

\* Mutant: an empty key value is let through.
Validate_EmptyKey(c) ==
  /\ portInRange(c.server.port) /\ portInRange(c.server.sftp_port)
  /\ \A i \in DOMAIN c.keys : c.keys[i].role \in {"readonly", "admin"}
  /\ isExternal(c.server.host) =>
       /\ c.keys # <<>>
       /\ (c.server.tls_cert = "") = (c.server.tls_key = "")
       /\ \A i \in DOMAIN c.keys :
            ~isPlaceholderKey(c.keys[i].key) /\ c.keys[i].key \notin ShortTexts

Validate(c) ==
  /\ portInRange(c.server.port) /\ portInRange(c.server.sftp_port)
  /\ \A i \in DOMAIN c.keys :
       c.keys[i].key # "" /\ c.keys[i].role \in {"readonly", "admin"}
  /\ isExternal(c.server.host) =>
       /\ c.keys # <<>>
       /\ (c.server.tls_cert = "") = (c.server.tls_key = "")
       /\ \A i \in DOMAIN c.keys :
            ~isPlaceholderKey(c.keys[i].key) /\ c.keys[i].key \notin ShortTexts

ConfigInit ==
  /\ file \in ConfigFiles
  /\ conf = Load(file)
  /\ phase = "loading"

\* main: the flags override the file, and what is not coherent does not start.
StartUp(flags) ==
  /\ phase = "loading"
  /\ conf' = [conf EXCEPT !.server.host = IF flags.host = "" THEN @ ELSE flags.host,
                          !.server.port = IF flags.port = 0 THEN @ ELSE flags.port]
  /\ phase' = IF Validate(conf') THEN "serving" ELSE "refused"
  /\ UNCHANGED file

ConfigNext == \E flags \in Overrides : StartUp(flags)

ConfigSpec == ConfigInit /\ [][ConfigNext]_configVars

\* The keys a bearer token matches: Authorize and KeyName take the first one.
matching(bearer) == {i \in DOMAIN conf.keys : conf.keys[i].key = bearer}
Authorized(bearer) == matching(bearer) # {}
keyOf(bearer) == conf.keys[CHOOSE i \in matching(bearer) : \A j \in matching(bearer) : i <= j]
-----------------------------------------------------------------------------
\* A [[keys]] table as it should be: a name, a key and a role, in any order.
threeLines(table) ==
  /\ Len(table.pairs) = 3
  /\ {table.pairs[i].key : i \in 1..3} = {"name", "key", "role"}

valueOf(table, field) ==
  table.pairs[CHOOSE i \in 1..3 : table.pairs[i].key = field].value

\* The keys a reader of the file sees in it: one for each table.
written(tables) ==
  LET upTo[n \in 0..Len(tables)] ==
        IF n = 0 THEN <<>>
        ELSE IF tables[n].name # "keys" THEN upTo[n - 1]
        ELSE Append(upTo[n - 1], [name |-> valueOf(tables[n], "name"),
                                  key |-> valueOf(tables[n], "key"),
                                  role |-> valueOf(tables[n], "role")])
  IN upTo[Len(tables)]

wellFormed(tables) == \A i \in DOMAIN tables : tables[i].name = "keys" => threeLines(tables[i])

\* The lines of a [[keys]] table may come in any order, and a line before the
\* name belongs, to this parser, to the table before it.  Whatever the order in
\* tables that have their three lines, a configuration wings starts with has the
\* keys, with the names and roles, that the file says: the wrong ones are refused.
AcceptedAsWritten ==
  phase = "serving" /\ wellFormed(file) => conf.keys = written(file)
=============================================================================
