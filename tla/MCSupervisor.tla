---------------------------- MODULE MCSupervisor ----------------------------
(***************************************************************************)
(* Small instances of Supervisor for TLC, and statements of the repository *)
(* about the supervisor that the code does not keep: each is checked alone *)
(* by a run that finds it violated.                                        *)
(***************************************************************************)
EXTENDS Supervisor

\* README.md:424-426: the guardian "also watches the supervisor heartbeat and
\* terminates the runtime process group even when no cleanup handler runs", so
\* that "process-group shutdown precedes reclamation".  guardian.py:40-57 no
\* longer reads the heartbeat.
ShutdownPrecedesReclamation == task.owner = "rival" => live = {}

\* README.md:113: "Interrupting the supervisor ... stops the managed child,
\* fences its claim, and also persists `blocked' rather than leaving an unowned
\* agent running".  _shutdown_unlocked detaches an adopted runtime.
InterruptLeavesNothing ==
  snapshot.phase = "blocked" /\ pc = "down" => live = {}

\* supervisor.py:721-724: a predecessor that rotation was ending "must NOT be
\* detached", shutdown "must retry that termination".  A second shutdown reads
\* the phase BLOCKED that the first one wrote.
RotatedOutIsNeverDetached ==
  [][(/\ snapshot'.alarm /\ ~snapshot.alarm
      /\ snapshot.conversation # NoRuntime) =>
       snapshot.process \in sessions]_vars

\* guardian.py:50-51: ACKNOWLEDGEMENT_FAILED ends "a successor that never
\* became the user's session".  A SessionStart hook that runs again, or that
\* polls only after RUNNING has become WARNING, aborts one that did.
AbortSparesTheSession ==
  [][\A r \in sessions : r \notin live' => r \notin aborting]_vars
=============================================================================
