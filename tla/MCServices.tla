----------------------------- MODULE MCServices -----------------------------
(* The services beside the core, for TLC.  They share no state: a behaviour  *)
(* is about one of them (and, of the lists, about one list or the cache).    *)
EXTENDS MCAssistantChat, Services, MCReferenceLoad, MCCatalogue, MCDraftPdf

VARIABLE part

listScene == <<side, walksLeft, changesLeft>>
ServiceVars == <<chatVars, turnsLeft, quiet, deliveryVars, referenceVars, catalogueVars, listScene, pdfVars>>

Parts == {"chat", "mail", "notifications", "loader", "seed", "catalogue", "pdf"}

ServicesInit ==
    /\ part \in Parts
    /\ ChatMCInit /\ DeliveryInit /\ ReferenceInit /\ CatalogueMCInit
    /\ part # "chat" => ~quiet
    /\ part # "catalogue" => side = "cache"
    /\ PdfInit /\ (part # "pdf" => contentJson = BLANK)

ServicesNext ==
    /\ UNCHANGED part
    /\ \/ part = "chat" /\ ChatMCNext
              /\ UNCHANGED <<deliveryVars, referenceVars, catalogueVars, listScene, pdfVars>>
       \/ part = "mail" /\ MailNext
              /\ UNCHANGED <<chatVars, turnsLeft, quiet, referenceVars, catalogueVars, listScene, pdfVars>>
       \/ part = "notifications" /\ PostNext
              /\ UNCHANGED <<chatVars, turnsLeft, quiet, referenceVars, catalogueVars, listScene, pdfVars>>
       \/ part = "loader" /\ LoadNext
              /\ UNCHANGED <<chatVars, turnsLeft, quiet, deliveryVars, catalogueVars, listScene, pdfVars>>
       \/ part = "seed" /\ SeedNext
              /\ UNCHANGED <<chatVars, turnsLeft, quiet, deliveryVars, catalogueVars, listScene, pdfVars>>
       \/ part = "catalogue" /\ CatalogueMCNext
              /\ UNCHANGED <<chatVars, turnsLeft, quiet, deliveryVars, referenceVars, pdfVars>>
       \/ part = "pdf" /\ compilePdf
              /\ UNCHANGED <<chatVars, turnsLeft, quiet, deliveryVars, referenceVars, catalogueVars, listScene>>

ServicesSpec == ServicesInit /\ [][ServicesNext]_<<ServiceVars, part>>
=============================================================================
