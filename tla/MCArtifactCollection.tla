------------------------ MODULE MCArtifactCollection ------------------------
EXTENDS ArtifactCollection
=============================================================================
