----------------------------- MODULE MCSupervisor -----------------------------
(* A process of servery for TLC: three starts, with a certificate of two     *)
(* domains or a generated one, or with a supervisor of two workers, of which *)
(* the second may hang while it starts or drains.                            *)
EXTENDS Launch

MCStubborn == {2}

Plan(acmes, made2, tftp, http3, mdns, serves) ==
  [acme |-> acmes, generated |-> made2, tftp |-> tftp, http3 |-> http3, mdns |-> mdns, serves |-> serves]
WithAcme == Plan(TRUE, FALSE, FALSE, FALSE, FALSE, "asgi")
MCPlans ==
  <<{WithAcme, Plan(FALSE, TRUE, TRUE, TRUE, TRUE, "tcp"), Plan(FALSE, TRUE, TRUE, TRUE, FALSE, "http3"),
     Plan(FALSE, FALSE, TRUE, FALSE, FALSE, "asgi"), Plan(FALSE, TRUE, FALSE, FALSE, FALSE, "workers")},
    {WithAcme}, {WithAcme}>>
=============================================================================
