---------------------------- MODULE MCComponent ----------------------------
EXTENDS Component
=============================================================================
