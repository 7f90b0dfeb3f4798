------------------------ MODULE MCSessionFactoryInit -------------------------
(* The instance of SessionFactoryInit: three first requests.               *)
EXTENDS SessionFactoryInit

CONSTANTS t1, t2, t3

FirstRequests == {t1, t2, t3}
=============================================================================
