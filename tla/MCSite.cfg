CONSTANTS
    Revisions <- MCRevisions
    Version <- MCVersion
    Pins <- MCPins
    Retains <- MCRetains
    Targets = {"apt"}
    MaxPublications = 2
SPECIFICATION Spec
INVARIANTS AcceptedIsInstallable ServedSiteIsCoherent ReportedIsServed
