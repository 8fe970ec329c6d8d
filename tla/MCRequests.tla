------------------------------ MODULE MCRequests ------------------------------
EXTENDS Requests, TLC

Kind(api, stream, isolated, stateless, lane) ==
  [api |-> api, stream |-> stream, isolated |-> isolated,
   stateless |-> stateless, lane |-> lane]

MCKinds == {Kind("chat", TRUE, TRUE, FALSE, "interactive"),
            Kind("chat", FALSE, TRUE, TRUE, "batch")}

AllKinds == MCKinds \cup
  {Kind(api, stream, isolated, FALSE, "interactive") :
     api \in {"chat", "responses", "messages"}, stream \in BOOLEAN, isolated \in BOOLEAN}

Cfg(acp, pools, rotating) == [acp |-> acp, pools |-> pools, rotating |-> rotating]

MCConfigs == {Cfg(FALSE, {}, TRUE), Cfg(TRUE, {}, TRUE),
              Cfg(TRUE, {"interactive"}, TRUE),
              Cfg(TRUE, {"interactive", "batch"}, FALSE)}
===============================================================================
