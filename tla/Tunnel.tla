------------------------------- MODULE Tunnel -------------------------------
(***************************************************************************)
(* What a VPNClient object promises to the code that opens it, whatever    *)
(* the threads behind it do: one attempt to bring a tunnel up, made once,  *)
(* that succeeds or fails once and never comes back to life, and an answer *)
(* to open() that is true only if the tunnel is up when it is given.       *)
(* VpnClient implements it (TunnelSpec there).                             *)
(***************************************************************************)
VARIABLES phase,   \* "idle", "trying", "up", "fell" (after up), "failed"
          answer   \* what open() returned: "no" (nothing yet), "true", "false"

Init == phase = "idle" /\ answer = "no"

Try == phase = "idle" /\ phase' = "trying" /\ UNCHANGED answer

\* open() gives up before it tries.
Refuse == phase = "idle" /\ phase' = "failed" /\ answer' = "false"

ComeUp == phase = "trying" /\ phase' = "up" /\ UNCHANGED answer

GoDown == /\ \/ phase = "trying" /\ phase' = "failed"
             \/ phase = "up" /\ phase' = "fell"
          /\ UNCHANGED answer

Succeed == answer = "no" /\ phase = "up" /\ answer' = "true" /\ UNCHANGED phase

GiveUp == answer = "no" /\ phase # "idle" /\ answer' = "false" /\ UNCHANGED phase

Next == Try \/ Refuse \/ ComeUp \/ GoDown \/ Succeed \/ GiveUp

Spec == Init /\ [][Next]_<<phase, answer>>
=============================================================================
