----------------------------- MODULE MCStreamConn -----------------------------
(* Call scripts that instantiate StreamConn for TLC. *)
EXTENDS StreamConn

AnyUse == {"connect", "subscribe", "unsubscribe", "post", "close"}

\* One goroutine connects and goes on to use the client, the other does anything.
MixedScripts == << << {"connect"}, AnyUse >>, << AnyUse >> >>

\* Two goroutines may both call Connect, nobody subscribes.
ConnectScripts == << << {"connect"}, {"connect"} >>, << {"connect"} >> >>

\* Two goroutines may connect; one may subscribe, the other may close.
RecoveryScripts ==
    << << {"connect"}, {"connect", "subscribe", "post"} >>,
       << {"connect", "close"} >> >>

\* One goroutine connects once and subscribes once.
SubscribeScripts == << << {"connect"}, {"subscribe"} >>, << {"post"} >> >>

\* One goroutine connects while the other closes.
CloseScripts == << << {"connect"} >>, << {"close"} >> >>
===============================================================================
