-------------------------- MODULE MCMountLifecycle --------------------------
(* An instance of MountLifecycle for TLC, with its scenes. *)
EXTENDS MountLifecycle

CONSTANTS p1, p2, boot

\* One command at a time, over a table that outgrows the free tier.
Serial == [tasks |-> {p1}, drives |-> 3, most |-> 4, letters |-> 1..3,
           taken |-> <<1>>, legacy |-> TRUE, mayFail |-> FALSE,
           commands |-> {"mount", "unmount", "remove", "credentials", "prefix", "add",
                         "reset", "exit", "read"}]

\* Two commands at once, all on one drive.
Races == [tasks |-> {p1, p2}, drives |-> 1, most |-> 4, letters |-> 1..2,
          taken |-> <<1>>, legacy |-> FALSE, mayFail |-> TRUE,
          commands |-> {"mount", "unmount", "remove", "addCloud", "reset", "exit"}]

\* The start-up beside two commands at once, and beside one after another.
Start  == [Races EXCEPT !.tasks = {p1, p2, boot}, !.most = 2]
StartAndGo == [Races EXCEPT !.tasks = {p1, boot}, !.most = 3]

\* One command at a time on one drive, whose store comes and goes.
Flaky == [Serial EXCEPT !.drives = 1, !.mayFail = TRUE,
            !.commands = {"mount", "unmount", "credentials", "reset", "exit", "net"}]

\* The start-up beside one command after another, on a store that comes and goes.
FlakyStart == [StartAndGo EXCEPT !.most = 2, !.commands = {"mount", "unmount", "exit", "net"}]

MCScenes == {Serial, Races, Start, StartAndGo, Flaky, FlakyStart}
=============================================================================
