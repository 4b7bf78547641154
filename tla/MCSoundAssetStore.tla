------------------------ MODULE MCSoundAssetStore ------------------------
EXTENDS SoundAssetStore
==========================================================================
