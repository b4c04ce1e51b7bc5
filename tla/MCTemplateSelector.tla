------------------------ MODULE MCTemplateSelector -------------------------
(* A catalogue of five templates: two app templates of different quality, *)
(* a "minimal" app template, and two workflow templates of which one is   *)
(* disabled, so that a workflow request has a single candidate.           *)
EXTENDS TemplateSelector

MCTemplates == {"saas", "landing", "minimal-app", "old-flow", "flow"}
MCAvailable == <<"saas", "landing", "minimal-app", "old-flow", "flow">>
MCTemplateType == [t \in MCTemplates |->
                     IF t \in {"old-flow", "flow"} THEN "workflow" ELSE "app"]
MCQuality == [t \in MCTemplates |->
                IF t = "saas" THEN "production"
                ELSE IF t = "landing" THEN "starter" ELSE "none"]
MCDisabled == {"old-flow"}
MCMinimalNamed == {"minimal-app"}

\* A strong fit, a weak fit and a conflicting template.
MCAnalyses ==
    {[domainMatch |-> 1, capabilityMatch |-> 1, uiFit |-> 1, extensibility |-> 1,
      conflictScore |-> 0],
     [domainMatch |-> 0, capabilityMatch |-> 1, uiFit |-> 0, extensibility |-> 0,
      conflictScore |-> 0],
     [domainMatch |-> 1, capabilityMatch |-> 1, uiFit |-> 1, extensibility |-> 1,
      conflictScore |-> 4]}

MCExplicitRequests == {"app", "workflow", "general", "presentation"}
MCAllRequests == MCExplicitRequests \cup {"auto", "unset"}

\* executeInference may hand runModel any shape it tells apart.
MCShapes == Shapes

=============================================================================
