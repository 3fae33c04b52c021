---------------------------- MODULE XmlDocuments -----------------------------
(***************************************************************************)
(* The two ways a document comes into the program, side by side: from the  *)
(* server, by xstream.c, and from a file, by expat.c.                      *)
(***************************************************************************)
EXTENDS XStream, XmlFile

DocumentsSpec == XStreamSpec /\ FileSpec

(* xstream.c and expat.c hand on the elements of the document that was fed, *)
(* from a socket or from a file, and end as it ends.                        *)
DocumentsDelivered ==
  /\ CallsInOrder /\ StreamOfElements /\ OpenIsBounded /\ ErrorsDeserved
  /\ TreeIsDocument /\ BorkedHangs /\ FileOldOrNew
==============================================================================
