------------------------------- MODULE Service -------------------------------
(***************************************************************************)
(* The program as its users see it: main.cpp of src/cli.  A user starts a  *)
(* service with arguments of module CommandLine and types lines; each      *)
(* service has one journal of module FileJournal.  How entries travel      *)
(* between the services is the matter of module Broker; here a peer's      *)
(* entry just arrives.                                                     *)
(***************************************************************************)
EXTENDS FileJournal, CommandLine

VARIABLE running  \* the ids of the services that run

svars == <<clock, files, running>>

ServiceInit == Init /\ running = {}

\* A relay to the service's own id, or to 0, is an append.
Appends(n, command) ==
  command.type = "Append" \/ (command.type = "Relay" /\ command.data.id \in {0, n})

\* RunService up to the first readline: the journal is opened in the directory that
\* was given and the command of the arguments is run; quit is no command yet.
\* (Without -i the id is 0, which is reserved; without -d the directory is a new
\* one, which nobody can start a service on again.)
Start(args) ==
  LET options == OptionsRead(args)
      data == options.command.data
  IN  /\ options.status = "Ok" /\ options.service /\ options.dbPath # NoPath
      /\ options.command.type # "Exception"
      /\ \E id \in UrlId(JournalUrl(options)) \cap (Id \ running) :
           /\ \/ ~Appends(id, options.command) /\ Open(id)
              \/ /\ Appends(id, options.command)
                 /\ OpenAndInsert(id, NewEntry(id, EmptyClock, data.value, data.alters))
           /\ running' = running \cup {id}

\* The loop of RunService on one line.  A line that cannot be read, and a command
\* about connections or for show, does nothing to the journal.
Enter(n, line) ==
  LET command == CommandRead(line)
  IN  /\ n \in running
      /\ \/ /\ Appends(n, command)
            /\ AppendData(n, command.data.value, command.data.alters)
            /\ UNCHANGED running
         \/ /\ command.type \in {"Quit", "Exception"}
            /\ running' = running \ {n}
            /\ UNCHANGED <<clock, files>>

\* An entry of m arrives at n, whatever n has of the entries that it counts.
Deliver(n, m) ==
  /\ {n, m} \subseteq running
  /\ \E e \in Stored(m) : Insert(n, e)
  /\ UNCHANGED running

-----------------------------------------------------------------------------
(***************************************************************************)
(* What the users type.                                                    *)
(***************************************************************************)

\* The arguments of a service, with its directory, and with a command; with an
\* id that is no number; without -s.
Arguments(n) ==
  LET service == <<Sign("s"), Sign("i"), Hex(n), Sign("d"), <<"path", n>>>>
  IN  {service \o <<Sign("add"), Dec(value)>> : value \in Amount}
        \cup {service, <<Sign("i"), Sign("quit"), Sign("s")>>, <<Sign("i"), Hex(n), Sign("quit")>>}

\* What the services have recorded.
Recorded == UNION {Stored(n) : n \in Id}

\* Of the versions that a user can type, those of the entries that there are, as
\* operator<< shows them, whole or cut off anywhere.
Versions ==
  LET Cuts(shown) == {SubSeq(shown, 1, k) : k \in 0..Len(shown)}
  IN  {<<>>} \cup UNION {Cuts(WriteClock(e.clock)) : e \in Recorded}

\* Lines that are commands and lines that are not.
Lines(n) ==
  {<<Sign("add"), Dec(value)>> \o version : value \in Amount, version \in Versions}
    \cup {<<Sign("relay"), Hex(n), Dec(value)>> \o version : value \in Amount, version \in Versions}
    \cup {<<>>, <<Sign("add")>>, <<Sign("relay"), Dec(5)>>, <<Sign("sources")>>, <<Sign("quit")>>,
          <<Sign("disconnect")>>}

StartAny == \E n \in Id : \E args \in Arguments(n) : Start(args)

Work ==
  \E n \in Id :
    \/ \E line \in Lines(n) : Enter(n, line)
    \/ \E m \in Id : Deliver(n, m)

Fresh == \A n \in Id : Stored(n) = {}

\* The services start, and end, before the first entry; then they stay.
StayNext == (Fresh /\ StartAny) \/ (Work /\ (running' = running \/ Fresh))

StaySpec == ServiceInit /\ [][StayNext]_svars

-----------------------------------------------------------------------------
\* An entry alters nothing, or an entry that some service has: a version of which
\* only a part was typed is never taken for another one.
AltersAnEntry ==
  \A e \in Recorded : e.alters = EmptyClock \/ \E f \in Recorded : f.clock = e.alters

=============================================================================
