-------------------------- MODULE MCBlockProvisioning --------------------------
\* Instances of BlockProvisioning for TLC.
EXTENDS BlockProvisioning, TLC

CONSTANTS i1, i2, i3, i4, h1, h2

Form(n, v, w, p) == [name |-> n, version |-> v, web |-> w, prime |-> p]
\* A web block that wants the prime domain, one that does not, and a server
\* block, with names that may collide, in two versions.
MixedForms ==
    {Form("a", "v1", TRUE, TRUE), Form("a", "v2", TRUE, FALSE), Form("a", "v1", FALSE, FALSE)}
\* The two web blocks of them.
WebForms == {f \in MixedForms : f.web}
\* Blocks that all want the prime domain.
PrimeForms == {Form("a", "v1", TRUE, TRUE), Form("b", "v1", TRUE, TRUE)}
SequentialForms == MixedForms \cup PrimeForms
\* Two names of which the second contains the first: "web" and "web2".
NestedForms == {Form("web", "v1", TRUE, FALSE), Form("web2", "v1", TRUE, FALSE)}
NestedNames == {<< <<"web">>, <<"web2">> >>}
NoNesting == {}
HandlerSymmetry == Permutations(Handlers)
IdSymmetry == Permutations(Ids)
Symmetry == HandlerSymmetry \cup IdSymmetry
=============================================================================
