------------------------------- MODULE Logger -------------------------------
(***************************************************************************)
(* The logger of TuxDMX (src/logger/logger.cpp): a file that lines are     *)
(* appended to while it is open, and a bounded list of the newest lines    *)
(* for the web interface.  Every operation is one section under gLogMutex; *)
(* the format of a line, and its timestamp, are left out.                  *)
(*                                                                         *)
(* Service composes it with the HTTP server and the main thread.           *)
(***************************************************************************)
EXTENDS Integers, Sequences

CONSTANTS
  Messages,   \* what is logged
  MaxRecent   \* kMaxRecentLogs

VARIABLES
  fileOpen,   \* gLogFile is open
  file,       \* lines in the file
  recent,     \* gRecentLogs
  written,    \* history: everything logged
  cleared     \* history: how much of it was logged before the last clear

vars == <<fileOpen, file, recent, written, cleared>>

\* initializeLogger() has opened the file.
LogInit ==
  /\ fileOpen = TRUE
  /\ file = <<>>
  /\ recent = <<>>
  /\ written = <<>>
  /\ cleared = 0

\* The last n lines of s, or all of them.
Newest(s, n) == SubSeq(s, IF Len(s) > n THEN Len(s) - n + 1 ELSE 1, Len(s))

\* Mutant: a full list drops the new line.
LogMessageKeepsOldest(m) ==
  /\ written' = Append(written, m)
  /\ file' = IF fileOpen THEN Append(file, m) ELSE file
  /\ recent' = SubSeq(Append(recent, m), 1, IF Len(recent) < MaxRecent THEN Len(recent) + 1
                                                                      ELSE MaxRecent)
  /\ UNCHANGED <<fileOpen, cleared>>

LogMessage(m) ==
  /\ written' = Append(written, m)
  /\ file' = IF fileOpen THEN Append(file, m) ELSE file
  /\ recent' = Newest(Append(recent, m), MaxRecent)
  /\ UNCHANGED <<fileOpen, cleared>>

\* What is answered to GET /api/logs.
RecentLogs(limit) == Newest(recent, limit)

\* clearRecentLogs(): the file keeps its lines.
ClearRecentLogs ==
  /\ recent' = <<>>
  /\ cleared' = Len(written)
  /\ UNCHANGED <<fileOpen, file, written>>

\* shutdownLogger(): later lines only reach the list and the console.
Close ==
  /\ fileOpen' = FALSE
  /\ UNCHANGED <<file, recent, written, cleared>>

LogTypeOK ==
  /\ fileOpen \in BOOLEAN
  /\ file \in Seq(Messages)
  /\ recent \in Seq(Messages) /\ Len(recent) <= MaxRecent
  /\ written \in Seq(Messages)
  /\ cleared \in 0..Len(written)

\* What recentLogs() returns: the newest lines logged since the last clear, as many
\* as were asked for and fit, in the order in which they are in the file.
ListIsTail ==
  \A limit \in 0..MaxRecent :
    RecentLogs(limit) = Newest(SubSeq(written, cleared + 1, Len(written)), limit)

\* The file has every line logged while it was open, from the first on.
FileIsPrefix ==
  /\ Len(file) <= Len(written)
  /\ file = SubSeq(written, 1, Len(file))
  /\ fileOpen => file = written
=============================================================================
