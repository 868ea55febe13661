------------------------ MODULE MCRepresentativeScreen ------------------------
EXTENDS RepresentativeScreen

==============================================================================
