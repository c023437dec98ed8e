----------------------------- MODULE CommandLine -----------------------------
(***************************************************************************)
(* What a user types: Command::Read (src/cli/command.cpp) for a line and   *)
(* Options (src/cli/options.cpp) for the arguments of the program, and the *)
(* id that RunService gives its journal by way of a url.  Both are texts   *)
(* of module EntryText, whose tokens are words and flags too.              *)
(***************************************************************************)
EXTENDS EntryText

kNameTypeMap ==
  [connect |-> "Connect", disconnect |-> "Disconnect", add |-> "Append", relay |-> "Relay",
   sources |-> "Sources", list |-> "ListCommands", quit |-> "Quit"]

NoData == [id |-> 0, value |-> 0, alters |-> EmptyClock]

\* Command{}: the type of an unknown name and of data that cannot be read.
NoCommand == [type |-> "Invalid", data |-> NoData]

\* A slip in ReadValueAndOptionalClock: what Clock::Read returns is not looked at,
\* so the pairs that it had read are kept.
ReadValueAndAnyClock(text, at) ==
  UNION {LET value == text[at][2]
         IN  IF end > Len(text)
               THEN {[NoData EXCEPT !.value = value]}
               ELSE {[NoData EXCEPT !.value = value, !.alters = read.clock] :
                       read \in UNION {ReadPairs(text, k) : k \in ReadChars(text, end, <<"open">>)}} :
           end \in ReadChars(text, at, <<"dec">>)}

\* The value, and the version up to the end of the line.  Like the reads of
\* EntryText this gives the set of what was read.
ReadValueAndOptionalClock(text, at) ==
  UNION {LET value == text[at][2]
         IN  IF end > Len(text)
               THEN {[NoData EXCEPT !.value = value]}
               ELSE {[NoData EXCEPT !.value = value, !.alters = read.clock] : read \in ReadClock(text, end)} :
           end \in ReadChars(text, at, <<"dec">>)}

\* ReadData of command.cpp: an id before them.
ReadRelayData(text, at) ==
  UNION {{[data EXCEPT !.id = text[at][2]] : data \in ReadValueAndOptionalClock(text, end)} :
           end \in ReadChars(text, at, <<"hex">>)}

\* Command::Read.  A disconnect without a number is an exception of std::stoi,
\* which nobody catches: the program ends.
CommandRead(text) ==
  IF text = <<>> \/ text[1][1] \notin DOMAIN kNameTypeMap
    THEN NoCommand
    ELSE LET type == kNameTypeMap[text[1][1]]
             data == CASE type = "Append" -> ReadValueAndOptionalClock(text, 2)
                       [] type = "Relay" -> ReadRelayData(text, 2)
                       [] OTHER -> {NoData}
         IN  CASE data = {} -> NoCommand
               [] type = "Disconnect" /\ ReadChars(text, 2, <<"dec">>) = {} ->
                    [NoCommand EXCEPT !.type = "Exception"]
               [] OTHER -> [type |-> type, data |-> CHOOSE d \in data : TRUE]

-----------------------------------------------------------------------------
\* The empty path; the other paths are numbers too.
NoPath == 0

\* Options::Options over getopt's "d:i:h:p:s".  An argument that is not a number
\* ends the loop; the tokens behind the flags are a command.  A word that begins
\* with a hexadecimal digit, such as add, is a number where an id is read, and as an
\* id it is a token Hex here.
OptionsRead(args) ==
  LET argument == [d |-> {"path"}, i |-> {"hex"}, h |-> {"host"}, p |-> {"dec"}]
      flags == {k \in 1..Len(args) : args[k][1] \in DOMAIN argument \cup {"s"}}
      wrong == {k \in flags : args[k][1] \in DOMAIN argument /\ args[k + 1][1] \notin argument[args[k][1]]}
      seen(flag) == {k \in flags : args[k][1] = flag /\ \A w \in wrong : k < w}
      given(flag, default) ==
        IF seen(flag) = {} THEN default ELSE args[1 + CHOOSE k \in seen(flag) : \A j \in seen(flag) : j <= k][2]
      optind == 1 + Cardinality(flags) + Cardinality({k \in flags : args[k][1] # "s"})
      service == seen("s") # {}
  IN  [status |-> CASE wrong # {} -> "InvalidOptionArgument"
                    [] wrong = {} /\ optind > Len(args) /\ ~service -> "MissingCommand"
                    [] OTHER -> "Ok",
       service |-> service, id |-> given("i", 0), dbPath |-> given("d", NoPath),
       command |-> CommandRead(SubSeq(args, optind, Len(args)))]

\* The url of RunService's journal: std::format("file://{:x}@localhost{}").
JournalUrl(options) == <<Sign("file"), Hex(options.id), Sign("localhost"), <<"path", options.dbPath>>>>

\* ParseUrl and BrokerBase::Impl: the id of a url is a hexadecimal number.
UrlId(url) == IF ReadChars(url, 2, <<"hex">>) = {} THEN {} ELSE {url[2][2]}

=============================================================================
