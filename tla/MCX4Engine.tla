----------------------------- MODULE MCX4Engine -----------------------------
EXTENDS X4Engine
CONSTANTS Enabled, OnViolation, Strong

\* Configurations of one set of switches: every policy, with and without the
\* dry run and the exemptions, one at a time.  A dry run has the policy "kill",
\* which it must not follow; the rollback makes it "warn".
AllConfigs ==
  {c \in [enabled : Enabled, onViolation : OnViolation, dryRun : BOOLEAN, debugBuild : {FALSE},
          soft : BOOLEAN, hard : BOOLEAN, strong : {Strong}] :
     ~(c.soft /\ c.hard) /\ (c.dryRun => c.enabled /\ c.onViolation = "kill")}

\* A quiet process, and what one round may meet instead.  The rwx region beyond
\* the first read is there and is not seen.
Line(name, perms, kb) == [name |-> name, perms |-> perms, kb |-> kb]
Quiet ==
  [hash |-> "equal", tcp |-> {<<"5D8A", "06">>, <<"1F90", "0A">>}, tcp6 |-> {}, stat |-> "S",
   maps |-> <<Line("anon:dalvik", "rwx", 4), Line("libc.so", "r-x", 1), Line("gadget", "rwx", 1)>>,
   tracer |-> 0, redirect |-> FALSE, vm |-> FALSE, gap |-> 0, memfds |-> 0]
Jit == [Quiet EXCEPT !.maps[1].kb = 7, !.memfds = 3]
Gadget == [Quiet EXCEPT !.maps[2] = Line("gadget", "rwx", 1)]
Stopped == [Quiet EXCEPT !.gap = 400, !.stat = "T", !.tracer = 7]
Agents == [Quiet EXCEPT !.maps[3] = Line("frida-agent", "r-x", 1)]
Listening == [Quiet EXCEPT !.tcp6 = {<<"5D8A", "0A">>}]
AllProcs == {Quiet, Jit, Gadget, Stopped, Agents, Listening}
=============================================================================
